---- MODULE Spec2Model ----
(***************************************************************************)
(* horus: the incremental crawl engine (BaseScraper.scrape), the content   *)
(* store (HorusStorage over sqlite3) and the crawl command that binds the  *)
(* engine's on_batch to the store.                                         *)
(*                                                                         *)
(* StoreSpec  drives the store's API from an arbitrary client.             *)
(* Spec       drives one `horus crawl threads` invocation: the command,    *)
(*            the engine coroutine between its suspension points, the      *)
(*            capture hook, cancellation, driver failures and the store.   *)
(* ResumeSpec drives an invocation and, when it was interrupted, a second  *)
(*            one without --since, with a driver and a store that do not   *)
(*            fail.                                                        *)
(***************************************************************************)
EXTENDS Integers, Sequences, FiniteSets, TLC

(* ------------------------------ bounds --------------------------------- *)
MaxStamp == 2        \* timestamps are 1..MaxStamp
MaxBatch == 2        \* longest list a store client passes to upsert_items
MaxPending == 1      \* uncommitted rows behind which a call may still raise
MaxPayload == 1      \* posts in one captured payload
MaxResponses == 3    \* payloads the capture hook buffers in one run
MaxPages == 4        \* Settings.max_pages, the scroll loop's iteration limit
MaxLimit == 2        \* largest limit a reader passes to get_items
MaxOffset == 1       \* largest offset a reader passes to get_items
MaxText == 3          \* characters of a stored text and of a search query
MaxLog == 1          \* crawl_log entries a store client writes
MaxPk == 2           \* post keys are 1..MaxPk
MaxThread == 3       \* thread_items of one edge of a replies payload
MaxEdges == 2        \* edges of one replies payload

(* ------------------------- program constants --------------------------- *)
InitialPollAttempts == 30   \* for _ in range(30)
ScrollPollAttempts == 10    \* for _ in range(10)
StagnationLimit == 3        \* if no_new_count >= 3

(* --------------------------- value domains ----------------------------- *)
None == "None"        \* Python's None where the other values are strings
NoTimestamp == 0      \* Python's None where the other values are timestamps
NoAuthor == <<>>      \* Python's None where the other values are author names
Sites == {"threads", "ddg"}
Ids == {"p1", "p2"}
Contents == {"old", "new"}
Stamps == 1..MaxStamp

\* models.py ScrapedItem.  One content value stands for an observation of the
\* mutable fields: url, text, author_id, author_name and extra are all set
\* from it, each kept as its own field.
ScrapedItem(id, site_id, content, timestamp) ==
    [id |-> id, site_id |-> site_id,
     url |-> <<"url", content>>, text |-> content,
     author_id |-> <<"uid", content>>, author_name |-> <<"name", content>>,
     timestamp |-> timestamp, extra |-> <<"extra", content>>]

\* The Records a store client submits: threads serves p1 and p2, ddg p1.
StoreKeys == {<<s, i>> \in Sites \X Ids : s = "threads" \/ i = "p1"}
StoreItems ==
    {ScrapedItem(k[2], k[1], c, t) : k \in StoreKeys, c \in Contents, t \in Stamps}

(* ------------------------- text conversions ---------------------------- *)
\* datetime.isoformat(): the text stored in items.timestamp, a fixed-width
\* digit string; sqlite compares and MAXes these texts lexicographically.
isoformat(ts) == <<ts \div 10, ts % 10>>
fromisoformat(s) == s[1] * 10 + s[2]
TextLess(a, b) == a[1] < b[1] \/ (a[1] = b[1] /\ a[2] < b[2])

\* json.dumps(item.extra) / json.loads(row["extra"])
json_dumps(extra) == <<"json", extra>>
json_loads(s) == s[2]

(* ------------------------------ state ---------------------------------- *)
VARIABLES
    db_items,    \* table items as committed in the database file
    tbl_items,   \* table items as the open connection sees it (with the
                 \* writes of its open transaction)
    crawl_log,   \* table crawl_log (every write to it is committed at once)
    spc,         \* store call in progress: "idle" | "upsert_items"
    u_given,     \* the caller's list is known up front (engine batch, or a
                 \* client submitting the previous list again)
    u_list,      \* that list when u_given
    u_done,      \* Records the loop of upsert_items has consumed so far
    new_count,   \* upsert_items' local new_count
    u_again,     \* this call submits the list of the call just returned
    call         \* the last completed store call and its outcome

storeVars == <<db_items, tbl_items, crawl_log, spc, u_given, u_list,
               u_done, new_count, u_again, call>>

VARIABLES
    pc,                   \* where the crawl command / the scrape coroutine is
    since,                \* the cutoff of this invocation, or NoTimestamp
    total_found,          \* _crawl's counters, updated by on_batch
    total_new,
    all_items,            \* scrape's accumulation
    collected_responses,  \* the capture hook's buffer
    prev_resp_count,      \* snapshots taken at the head of a scroll iteration
    prev_item_count,
    scroll_count,
    no_new_count,
    polls,                \* iterations of the current poll loop that slept
    exc,                  \* the exception travelling out of scrape, or None
    result,               \* the list scrape returns
    opened,               \* history: browser contexts opened by this run
    closed,               \* history: context.close() calls of this run
    delivered,            \* history: the batches passed to on_batch, each
                          \* with the place of the call
    progress,             \* history: the on_progress calls
    stop,                 \* history: the exit the scroll phase took
    feed,                 \* the payloads the target serves, as far as served
    runs                  \* history: one entry per ended invocation

cliVars == <<since, total_found, total_new, feed, runs>>
engineVars == <<all_items, collected_responses, prev_resp_count,
                prev_item_count, scroll_count, no_new_count, polls, exc,
                result, opened, closed, delivered, progress, stop>>

VARIABLE
    conns                 \* the connections of the concurrent writers: where
                          \* each is in upsert_items, and its transaction

VARIABLE
    query                 \* the last read of the store: its arguments and
                          \* what it returned

VARIABLE
    hook                  \* the response the capture hook handled last

VARIABLES
    pages,                \* table pages (every write to it is committed at
                          \* once)
    page_call             \* the last upsert_page call: its page and what it
                          \* returned

pageVars == <<pages, page_call>>

VARIABLES
    db_fts,               \* the full-text index items_fts as committed: one
                          \* entry per indexed rowid, with the text whose
                          \* trigrams it holds
    tbl_fts               \* items_fts as the open connection sees it

ftsVars == <<db_fts, tbl_fts>>

vars == <<storeVars, pc, cliVars, engineVars, conns, query, hook, pageVars,
          ftsVars>>

NoCall == [op |-> "none", items |-> <<>>, raised |-> FALSE, ret |-> 0, again |-> FALSE]

(* ------------------------------ store ---------------------------------- *)
\* A key on id alone
SameKeyIdOnly(r, item) == r.id = item.id

\* WHERE site_id = ? AND id = ?
SameKey(r, item) == r.site_id = item.site_id /\ r.id = item.id

\* The lookup a key on id alone would make
SelectExistingById(tbl, item) == \E r \in tbl : r.id = item.id

\* SELECT 1 FROM items WHERE site_id = ? AND id = ?
SelectExisting(tbl, item) == \E r \in tbl : SameKey(r, item)

\* An UPDATE ... WHERE id = ?
UpdateRowById(tbl, item) ==
    {IF r.id = item.id
        THEN [r EXCEPT !.text = item.text, !.url = item.url,
                       !.author_id = item.author_id,
                       !.author_name = item.author_name,
                       !.extra = json_dumps(item.extra)]
        ELSE r : r \in tbl}

\* An UPDATE that sets timestamp as well
UpdateRowReplace(tbl, item) ==
    {IF SameKey(r, item)
        THEN [r EXCEPT !.text = item.text, !.url = item.url,
                       !.author_id = item.author_id,
                       !.author_name = item.author_name,
                       !.timestamp = isoformat(item.timestamp),
                       !.extra = json_dumps(item.extra)]
        ELSE r : r \in tbl}

\* UPDATE items SET text, url, author_id, author_name, extra WHERE site_id, id
\* (fetched_at, which no query reads, is left out of the rows)
UpdateRow(tbl, item) ==
    {IF SameKey(r, item)
        THEN [r EXCEPT !.text = item.text, !.url = item.url,
                       !.author_id = item.author_id,
                       !.author_name = item.author_name,
                       !.extra = json_dumps(item.extra)]
        ELSE r : r \in tbl}

\* INSERT INTO items (id, site_id, url, text, author_id, author_name,
\*                    timestamp, extra)
InsertRow(tbl, item) ==
    tbl \cup {[id |-> item.id, site_id |-> item.site_id, url |-> item.url,
               text |-> item.text, author_id |-> item.author_id,
               author_name |-> item.author_name,
               timestamp |-> isoformat(item.timestamp),
               extra |-> json_dumps(item.extra)]}

\* The rowid of a row of items.  The table has an implicit rowid, given at
\* the INSERT and kept by every UPDATE; no row is deleted, so the row's key
\* stands for it.
rowid(r) == <<r.site_id, r.id>>

\* Trigger items_ai, AFTER INSERT ON items:
\* INSERT INTO items_fts(rowid, text) VALUES (new.rowid, new.text)
items_ai(fts, new) == fts \cup {[rowid |-> rowid(new), text |-> new.text]}

\* An update trigger without the 'delete' command
items_au_insert_only(fts, old, new) ==
    fts \cup {[rowid |-> rowid(new), text |-> new.text]}

\* Trigger items_au, AFTER UPDATE ON items:
\* INSERT INTO items_fts(items_fts, rowid, text)
\*     VALUES('delete', old.rowid, old.text);
\* INSERT INTO items_fts(rowid, text) VALUES (new.rowid, new.text)
items_au(fts, old, new) ==
    (fts \ {[rowid |-> rowid(old), text |-> old.text]})
        \cup {[rowid |-> rowid(new), text |-> new.text]}

\* The row of the item's key
RowOf(tbl, item) == CHOOSE r \in tbl : SameKey(r, item)

\* The rows the UPDATE changes, for each of which items_au fires
Updated(tbl, item) == {r \in tbl : SameKey(r, item)}

\* upsert_items(items): entry.  new_count = 0, nothing consumed yet.
upsert_items(given, list, again) ==
    /\ spc' = "upsert_items"
    /\ u_given' = given
    /\ u_list' = list
    /\ u_done' = <<>>
    /\ new_count' = 0
    /\ u_again' = again
    /\ call' = NoCall

u_more == IF u_given THEN Len(u_done) < Len(u_list) ELSE Len(u_done) < MaxBatch

\* One iteration of `for item in items`: SELECT, then UPDATE or INSERT.  The
\* statements run in the connection's implicit transaction.  With ok = FALSE
\* a statement of this iteration raises (json.dumps on an extra that is not
\* serialisable, or an sqlite3.Error): the exception leaves upsert_items, no
\* rollback is issued, the transaction stays open.
UpsertItemsIter ==
    /\ spc = "upsert_items"
    /\ u_more
    /\ \E item \in (IF u_given THEN {u_list[Len(u_done) + 1]} ELSE StoreItems) :
       \E ok \in (IF Cardinality(tbl_items \ db_items) <= MaxPending
                      THEN BOOLEAN ELSE {TRUE}) :
          IF ok
          THEN /\ IF SelectExisting(tbl_items, item)
                     THEN /\ tbl_items' = UpdateRow(tbl_items, item)
                          /\ tbl_fts' =
                                IF Updated(tbl_items, item) # {}
                                THEN items_au(tbl_fts,
                                              RowOf(tbl_items, item),
                                              RowOf(tbl_items', item))
                                ELSE tbl_fts
                          /\ new_count' = new_count
                     ELSE /\ tbl_items' = InsertRow(tbl_items, item)
                          /\ tbl_fts' = items_ai(tbl_fts,
                                                 RowOf(tbl_items', item))
                          /\ new_count' = new_count + 1
               /\ u_done' = Append(u_done, item)
               /\ UNCHANGED <<db_items, crawl_log, spc, u_given, u_list,
                              u_again, call, pc, cliVars, engineVars>>
          ELSE /\ spc' = "idle"
               /\ call' = [op |-> "upsert_items", items |-> <<>>,
                           raised |-> TRUE, ret |-> 0, again |-> u_again]
               /\ u_given' = FALSE /\ u_list' = <<>> /\ u_done' = <<>>
               /\ new_count' = 0 /\ u_again' = FALSE
               /\ UNCHANGED <<db_items, tbl_items, tbl_fts, crawl_log, pc,
                              cliVars, engineVars>>
    /\ UNCHANGED <<conns, query, hook, pageVars, db_fts>>

\* The same returning len(items)
UpsertItemsCommitAll ==
    /\ spc = "upsert_items"
    /\ IF u_given THEN Len(u_done) = Len(u_list) ELSE TRUE
    /\ db_items' = tbl_items
    /\ db_fts' = tbl_fts
    /\ spc' = "idle"
    /\ call' = [op |-> "upsert_items", items |-> u_done, raised |-> FALSE,
                ret |-> Len(u_done), again |-> u_again]
    /\ u_given' = FALSE /\ u_list' = <<>> /\ u_done' = <<>>
    /\ new_count' = 0 /\ u_again' = FALSE
    /\ UNCHANGED <<tbl_items, crawl_log, pc, cliVars, engineVars>>
    /\ UNCHANGED <<conns, query, hook, pageVars, tbl_fts>>

\* End of the loop: self._conn.commit(); return new_count
UpsertItemsCommit ==
    /\ spc = "upsert_items"
    /\ IF u_given THEN Len(u_done) = Len(u_list) ELSE TRUE
    /\ db_items' = tbl_items
    /\ db_fts' = tbl_fts
    /\ spc' = "idle"
    /\ call' = [op |-> "upsert_items", items |-> u_done, raised |-> FALSE,
                ret |-> new_count, again |-> u_again]
    /\ u_given' = FALSE /\ u_list' = <<>> /\ u_done' = <<>>
    /\ new_count' = 0 /\ u_again' = FALSE
    /\ UNCHANGED <<tbl_items, crawl_log, pc, cliVars, engineVars>>
    /\ UNCHANGED <<conns, query, hook, pageVars, tbl_fts>>

\* log_crawl: INSERT INTO crawl_log ...; self._conn.commit()
log_crawl(site_id, url, items_found, items_new) ==
    /\ crawl_log' = Append(crawl_log, [site_id |-> site_id, url |-> url,
                                       items_found |-> items_found,
                                       items_new |-> items_new])
    /\ db_items' = tbl_items
    /\ db_fts' = tbl_fts
    /\ call' = [NoCall EXCEPT !.op = "log_crawl"]

\* close(): the connection goes; what its transaction had not committed is
\* rolled back.  The next HorusStorage(db_path) sees the committed tables.
close ==
    /\ tbl_items' = db_items
    /\ tbl_fts' = db_fts
    /\ call' = [NoCall EXCEPT !.op = "close"]

\* The same query without the author_name condition
get_latest_timestamp_of_site(tbl, site_id, author_name) ==
    LET ts == {r.timestamp : r \in {x \in tbl : x.site_id = site_id}}
    IN IF ts = {} THEN NoTimestamp
       ELSE fromisoformat(CHOOSE m \in ts : \A t \in ts : ~TextLess(m, t))

\* get_latest_timestamp(site_id, author_name=None):
\* SELECT MAX(timestamp) ... WHERE site_id = ? [AND author_name = ?]
\* then datetime.fromisoformat(...).replace(tzinfo=UTC); None without rows.
get_latest_timestamp(tbl, site_id, author_name) ==
    LET ts == {r.timestamp :
                  r \in {x \in tbl : /\ x.site_id = site_id
                                     /\ author_name # NoAuthor
                                           => x.author_name = author_name}}
    IN IF ts = {} THEN NoTimestamp
       ELSE fromisoformat(CHOOSE m \in ts : \A t \in ts : ~TextLess(m, t))

(* ----------------------------- adapter --------------------------------- *)
\* A captured payload is the list of its posts, each with pk and taken_at.
Posts == [pk : Ids, taken_at : Stamps]
Payloads == UNION {[1..n -> Posts] : n \in 0..MaxPayload}

\* ThreadsAdapter.parse_response / _parse_posts / _parse_item
parse_response(body) ==
    [k \in 1..Len(body) |->
        ScrapedItem(body[k].pk, "threads", "old", body[k].taken_at)]

\* A network response as the capture hook sees it: its url (the GraphQL
\* endpoint or another one) and its body: not JSON, a JSON array, a JSON
\* object without data.mediaData, or a payload.
Urls == {"graphql", "static"}
Responses ==
    [url : Urls, kind : {"not_json", "array", "object"}, body : {<<>>}]
        \cup [url : Urls, kind : {"payload"}, body : Payloads]
NoResponse == [url |-> None, kind |-> None, body |-> <<>>]

\* await response.json(): raises when the body is not JSON
json(response) == IF response.kind = "not_json" THEN "raises" ELSE "returns"

\* A filter on the body alone
filter_fn_any_url(response) ==
    IF response.kind = "array" THEN "raises"
    ELSE IF response.kind = "payload" THEN "true"
    ELSE "false"

\* ThreadsAdapter.get_response_filter, filter_fn(url, body):
\* "graphql" in url and "mediaData" in str(body.get("data", {}).keys());
\* body.get raises on a body that is not an object
filter_fn(response) ==
    IF response.kind = "array" THEN "raises"
    ELSE IF response.url = "graphql" /\ response.kind = "payload" THEN "true"
    ELSE "false"

\* SiteAdapter.post_process
post_process(items) == items

\* for resp in responses: items.extend(parser(resp))
RECURSIVE ParseAll(_)
ParseAll(responses) ==
    IF responses = <<>> THEN <<>>
    ELSE parse_response(Head(responses)) \o ParseAll(Tail(responses))

(* ------------------------ engine: post-processing ---------------------- *)
Front(s) == SubSeq(s, 1, Len(s) - 1)
Last(s) == s[Len(s)]

\* The accumulation as it is, every occurrence kept
DedupNone(items) == items

\* Deduplicate by item id, first occurrence kept
RECURSIVE Dedup(_)
Dedup(items) ==
    IF items = <<>> THEN <<>>
    ELSE LET unique_items == Dedup(Front(items))
             item == Last(items)
         IN IF \E k \in 1..Len(unique_items) : unique_items[k].id = item.id
               THEN unique_items
               ELSE Append(unique_items, item)

\* The filter with >= in place of >
FilterSinceInclusive(items, cutoff) ==
    IF cutoff = NoTimestamp THEN items
    ELSE SelectSeq(items, LAMBDA item : item.timestamp >= cutoff)

\* if since: [item for item in unique_items if item.timestamp > since]
FilterSince(items, cutoff) ==
    IF cutoff = NoTimestamp THEN items
    ELSE SelectSeq(items, LAMBDA item : item.timestamp > cutoff)

\* The insertion of a sort without reverse=True
InsertAsc(sorted, item) ==
    LET n == Cardinality({k \in 1..Len(sorted) :
                             sorted[k].timestamp <= item.timestamp})
    IN SubSeq(sorted, 1, n) \o <<item>> \o SubSeq(sorted, n + 1, Len(sorted))

\* The insertion of a descending sort that is not stable: an item goes in
\* front of the items before it whose timestamp is equal
InsertDescUnstable(sorted, item) ==
    LET n == Cardinality({k \in 1..Len(sorted) :
                             sorted[k].timestamp > item.timestamp})
    IN SubSeq(sorted, 1, n) \o <<item>> \o SubSeq(sorted, n + 1, Len(sorted))

\* list.sort(key=timestamp, reverse=True): stable, so an item goes behind
\* the items before it whose timestamp is greater or equal
InsertDesc(sorted, item) ==
    LET n == Cardinality({k \in 1..Len(sorted) :
                             sorted[k].timestamp >= item.timestamp})
    IN SubSeq(sorted, 1, n) \o <<item>> \o SubSeq(sorted, n + 1, Len(sorted))

RECURSIVE SortDesc(_)
SortDesc(items) ==
    IF items = <<>> THEN <<>>
    ELSE InsertDesc(SortDesc(Front(items)), Last(items))

\* The same steps with the since filter ahead of the deduplication
PostProcessFilterFirst(items, cutoff) ==
    SortDesc(Dedup(FilterSince(items, cutoff)))

\* Deduplicate, filter by since, sort descending by timestamp
PostProcess(items, cutoff) == SortDesc(FilterSince(Dedup(items), cutoff))

MinTimestamp(items) ==
    CHOOSE m \in {items[k].timestamp : k \in 1..Len(items)} :
        \A k \in 1..Len(items) : m <= items[k].timestamp

(* ------------------------- engine: control flow ------------------------ *)
\* The coroutine is suspended at an await in these places.
InTry == {"goto", "poll_init", "settle", "scroll_eval", "scroll_delay",
          "post_scroll", "poll_scroll"}
BeforeTry == {"new_context", "new_page"}
CancelPoints == BeforeTry \cup InTry

\* try: ... finally: await context.close(), entered with an exception
Raise(e) ==
    /\ exc' = e
    /\ pc' = "close"
    /\ polls' = 0

\* The loop head of `while True`
LoopHeadNoLimit(count, items) ==
    /\ pc' = "scroll_eval"
    /\ prev_resp_count' = Len(collected_responses)
    /\ prev_item_count' = Len(items)
    /\ stop' = stop

\* The loop head with the payload count taken once, before the loop
LoopHeadStaleSnapshot(count, items) ==
    IF count < MaxPages
    THEN /\ pc' = "scroll_eval"
         /\ prev_resp_count' = IF count = 0 THEN Len(collected_responses)
                                            ELSE prev_resp_count
         /\ prev_item_count' = Len(items)
         /\ stop' = stop
    ELSE /\ pc' = "close"
         /\ stop' = "limit"
         /\ UNCHANGED <<prev_resp_count, prev_item_count>>

\* while scroll_count < self._max_pages: prev_resp_count, prev_item_count
LoopHead(count, items) ==
    IF count < MaxPages
    THEN /\ pc' = "scroll_eval"
         /\ prev_resp_count' = Len(collected_responses)
         /\ prev_item_count' = Len(items)
         /\ stop' = stop
    ELSE /\ pc' = "close"
         /\ stop' = "limit"
         /\ UNCHANGED <<prev_resp_count, prev_item_count>>

\* The bailout test with < in place of <=
EarlyBailoutStrict(items) ==
    /\ since # NoTimestamp
    /\ items # <<>>
    /\ \A k \in 1..Len(items) : items[k].timestamp < since

\* The bailout test without `and all_items`: all() of an empty list is true
EarlyBailoutVacuous(items) ==
    /\ since # NoTimestamp
    /\ \A k \in 1..Len(items) : items[k].timestamp <= since

\* Early bailout, else scroll_count = 0, no_new_count = 0 and the loop
EarlyBailout(items) ==
    /\ since # NoTimestamp
    /\ items # <<>>
    /\ \A k \in 1..Len(items) : items[k].timestamp <= since

AfterInitialParse(items) ==
    IF EarlyBailout(items)
    THEN /\ pc' = "close"
         /\ stop' = "bailout"
         /\ UNCHANGED <<scroll_count, no_new_count, prev_resp_count,
                        prev_item_count>>
    ELSE /\ scroll_count' = 0
         /\ no_new_count' = 0
         /\ LoopHead(0, items)

\* The cutoff test with < in place of <=
CutoffStopStrict(items) ==
    /\ since # NoTimestamp
    /\ items # <<>>
    /\ MinTimestamp(items) < since

\* on_progress, the stagnation stop, the cutoff stop, the next iteration
CutoffStop(items) ==
    /\ since # NoTimestamp
    /\ items # <<>>
    /\ MinTimestamp(items) <= since

\* The same with on_progress called at the end of the loop body, which an
\* iteration that stops does not reach
AfterParseNewProgressLast(items) ==
    LET grew == Len(items) # prev_item_count
        count == IF grew THEN 0 ELSE no_new_count + 1
    IN /\ no_new_count' = count
       /\ scroll_count' = scroll_count
       /\ IF ~grew /\ count >= StagnationLimit
          THEN /\ pc' = "close"
               /\ stop' = "stagnation"
               /\ UNCHANGED <<prev_resp_count, prev_item_count, progress>>
          ELSE IF CutoffStop(items)
          THEN /\ pc' = "close"
               /\ stop' = "cutoff"
               /\ UNCHANGED <<prev_resp_count, prev_item_count, progress>>
          ELSE /\ progress' = Append(progress, <<scroll_count, Len(items)>>)
               /\ LoopHead(scroll_count, items)

\* The same with growth measured on the distinct ids accumulated
AfterParseNewDistinctIds(items) ==
    LET ids(n) == {items[k].id : k \in 1..n}
        grew == ids(Len(items)) # ids(prev_item_count)
        count == IF grew THEN 0 ELSE no_new_count + 1
    IN /\ progress' = Append(progress, <<scroll_count, Len(items)>>)
       /\ no_new_count' = count
       /\ scroll_count' = scroll_count
       /\ IF ~grew /\ count >= StagnationLimit
          THEN /\ pc' = "close"
               /\ stop' = "stagnation"
               /\ UNCHANGED <<prev_resp_count, prev_item_count>>
          ELSE IF CutoffStop(items)
          THEN /\ pc' = "close"
               /\ stop' = "cutoff"
               /\ UNCHANGED <<prev_resp_count, prev_item_count>>
          ELSE LoopHead(scroll_count, items)

\* The same with a counter that growth does not reset
AfterParseNewNoReset(items) ==
    LET grew == Len(items) # prev_item_count
        count == IF grew THEN no_new_count ELSE no_new_count + 1
    IN /\ progress' = Append(progress, <<scroll_count, Len(items)>>)
       /\ no_new_count' = count
       /\ scroll_count' = scroll_count
       /\ IF ~grew /\ count >= StagnationLimit
          THEN /\ pc' = "close"
               /\ stop' = "stagnation"
               /\ UNCHANGED <<prev_resp_count, prev_item_count>>
          ELSE IF CutoffStop(items)
          THEN /\ pc' = "close"
               /\ stop' = "cutoff"
               /\ UNCHANGED <<prev_resp_count, prev_item_count>>
          ELSE LoopHead(scroll_count, items)

\* The same with the stagnation test count > 3 in place of count >= 3
AfterParseNewLate(items) ==
    LET grew == Len(items) # prev_item_count
        count == IF grew THEN 0 ELSE no_new_count + 1
    IN /\ progress' = Append(progress, <<scroll_count, Len(items)>>)
       /\ no_new_count' = count
       /\ scroll_count' = scroll_count
       /\ IF ~grew /\ count > StagnationLimit
          THEN /\ pc' = "close"
               /\ stop' = "stagnation"
               /\ UNCHANGED <<prev_resp_count, prev_item_count>>
          ELSE IF CutoffStop(items)
          THEN /\ pc' = "close"
               /\ stop' = "cutoff"
               /\ UNCHANGED <<prev_resp_count, prev_item_count>>
          ELSE LoopHead(scroll_count, items)

AfterParseNew(items) ==
    LET grew == Len(items) # prev_item_count
        count == IF grew THEN 0 ELSE no_new_count + 1
    IN /\ progress' = Append(progress, <<scroll_count, Len(items)>>)
       /\ no_new_count' = count
       /\ scroll_count' = scroll_count
       /\ IF ~grew /\ count >= StagnationLimit
          THEN /\ pc' = "close"
               /\ stop' = "stagnation"
               /\ UNCHANGED <<prev_resp_count, prev_item_count>>
          ELSE IF CutoffStop(items)
          THEN /\ pc' = "close"
               /\ stop' = "cutoff"
               /\ UNCHANGED <<prev_resp_count, prev_item_count>>
          ELSE LoopHead(scroll_count, items)

\* A scrape that keeps its batches for the end: on_batch is not called here
OnBatchAtEnd(batch, at) ==
    /\ pc' = at
    /\ UNCHANGED <<delivered, spc, u_given, u_list, u_done, new_count,
                   u_again, call>>

\* if on_batch and batch: on_batch(batch), which in _crawl is
\* storage.upsert_items(adapter.post_process(batch))
OnBatch(batch, at) ==
    /\ delivered' = Append(delivered, [at |-> at, batch |-> batch])
    /\ pc' = at
    /\ upsert_items(TRUE, post_process(batch), FALSE)

\* Parse initial load, on_batch, then the bailout test
ParseInitial ==
    LET items == all_items \o ParseAll(collected_responses)
    IN /\ all_items' = items
       /\ polls' = 0
       /\ IF items # <<>>
          THEN /\ OnBatch(items, "on_batch_init")
               /\ UNCHANGED <<scroll_count, no_new_count, prev_resp_count,
                              prev_item_count, stop>>
          ELSE /\ AfterInitialParse(items)
               /\ UNCHANGED <<delivered, spc, u_given, u_list, u_done,
                              new_count, u_again, call>>
       /\ UNCHANGED <<db_items, tbl_items, crawl_log, cliVars,
                      collected_responses, exc, result, opened, closed,
                      progress>>

\* The same with on_batch given the whole accumulation
ParseNewWhole ==
    LET new_items == ParseAll(SubSeq(collected_responses, prev_resp_count + 1,
                                     Len(collected_responses)))
        items == all_items \o new_items
    IN /\ all_items' = items
       /\ polls' = 0
       /\ IF new_items # <<>>
          THEN /\ OnBatch(items, "on_batch_scroll")
               /\ UNCHANGED <<scroll_count, no_new_count, prev_resp_count,
                              prev_item_count, stop, progress>>
          ELSE /\ AfterParseNew(items)
               /\ UNCHANGED <<delivered, spc, u_given, u_list, u_done,
                              new_count, u_again, call>>
       /\ UNCHANGED <<db_items, tbl_items, crawl_log, cliVars,
                      collected_responses, exc, result, opened, closed>>

\* Parse new responses, on_batch, then on_progress and the stop tests
ParseNew ==
    LET new_items == ParseAll(SubSeq(collected_responses, prev_resp_count + 1,
                                     Len(collected_responses)))
        items == all_items \o new_items
    IN /\ all_items' = items
       /\ polls' = 0
       /\ IF new_items # <<>>
          THEN /\ OnBatch(new_items, "on_batch_scroll")
               /\ UNCHANGED <<scroll_count, no_new_count, prev_resp_count,
                              prev_item_count, stop, progress>>
          ELSE /\ AfterParseNew(items)
               /\ UNCHANGED <<delivered, spc, u_given, u_list, u_done,
                              new_count, u_again, call>>
       /\ UNCHANGED <<db_items, tbl_items, crawl_log, cliVars,
                      collected_responses, exc, result, opened, closed>>

(* --------------------------- engine: steps ----------------------------- *)
\* context = await self.new_context(state_path=state_path)
NewContext ==
    /\ pc = "new_context"
    /\ \E ok \in BOOLEAN :
          IF ok THEN /\ opened' = opened + 1
                     /\ pc' = "new_page"
                     /\ exc' = exc
                ELSE /\ exc' = "error"
                     /\ pc' = "raised"
                     /\ opened' = opened
    /\ UNCHANGED <<storeVars, cliVars, all_items, collected_responses,
                   prev_resp_count, prev_item_count, scroll_count,
                   no_new_count, polls, result, closed, delivered, progress,
                   stop>>
    /\ UNCHANGED <<conns, query, hook, pageVars, ftsVars>>

\* page = await context.new_page(); page.on("response", on_response)
\* Not inside the try: an exception here leaves scrape at once.
NewPage ==
    /\ pc = "new_page"
    /\ \E ok \in BOOLEAN :
          IF ok THEN /\ pc' = "goto"
                     /\ exc' = exc
                ELSE /\ exc' = "error"
                     /\ pc' = "raised"
    /\ UNCHANGED <<storeVars, cliVars, all_items, collected_responses,
                   prev_resp_count, prev_item_count, scroll_count,
                   no_new_count, polls, result, opened, closed, delivered,
                   progress, stop>>
    /\ UNCHANGED <<conns, query, hook, pageVars, ftsVars>>

\* The same with the goto before the try, as new_page is
GotoOutsideTry ==
    /\ pc = "goto"
    /\ \E ok \in BOOLEAN :
          IF ok THEN /\ exc' = exc
                     /\ IF collected_responses # <<>>
                           THEN pc' = "settle" /\ polls' = 0
                           ELSE pc' = "poll_init" /\ polls' = 1
                ELSE /\ exc' = "navigation"
                     /\ pc' = "raised"
                     /\ polls' = 0
    /\ UNCHANGED <<storeVars, cliVars, all_items, collected_responses,
                   prev_resp_count, prev_item_count, scroll_count,
                   no_new_count, result, opened, closed, delivered, progress,
                   stop>>
    /\ UNCHANGED <<conns, query, hook, pageVars, ftsVars>>

\* await page.goto(url, wait_until="load", timeout=60000), then the first
\* test of the poll loop.  With ok = FALSE the navigation fails or its
\* timeout expires: playwright raises (Error, TimeoutError) inside the try.
Goto ==
    /\ pc = "goto"
    /\ \E ok \in BOOLEAN :
          IF ok THEN /\ exc' = exc
                     /\ IF collected_responses # <<>>
                           THEN pc' = "settle" /\ polls' = 0
                           ELSE pc' = "poll_init" /\ polls' = 1
                ELSE Raise("navigation")
    /\ UNCHANGED <<storeVars, cliVars, all_items, collected_responses,
                   prev_resp_count, prev_item_count, scroll_count,
                   no_new_count, result, opened, closed, delivered, progress,
                   stop>>
    /\ UNCHANGED <<conns, query, hook, pageVars, ftsVars>>

\* for _ in range(30): if collected_responses: break; await asyncio.sleep(1)
PollInit ==
    /\ pc = "poll_init"
    /\ IF polls < InitialPollAttempts /\ collected_responses = <<>>
          THEN pc' = "poll_init" /\ polls' = polls + 1
          ELSE pc' = "settle" /\ polls' = 0
    /\ UNCHANGED <<storeVars, cliVars, all_items, collected_responses,
                   prev_resp_count, prev_item_count, scroll_count,
                   no_new_count, exc, result, opened, closed, delivered,
                   progress, stop>>
    /\ UNCHANGED <<conns, query, hook, pageVars, ftsVars>>

\* await asyncio.sleep(random.uniform(2, 4)), then the initial parse
Settle ==
    /\ pc = "settle"
    /\ ParseInitial
    /\ UNCHANGED <<conns, query, hook, pageVars, ftsVars>>

\* The same with the call wrapped in try/except: pass
OnBatchInitReturnSwallow ==
    /\ pc = "on_batch_init"
    /\ spc = "idle"
    /\ total_found' = total_found + Len(call.items)
    /\ total_new' = total_new + call.ret
    /\ AfterInitialParse(all_items)
    /\ UNCHANGED <<exc, polls>>
    /\ UNCHANGED <<storeVars, since, feed, runs, all_items,
                   collected_responses, result, opened, closed, delivered,
                   progress>>
    /\ UNCHANGED <<conns, query, hook, pageVars, ftsVars>>

\* on_batch returned or raised (initial parse)
OnBatchInitReturn ==
    /\ pc = "on_batch_init"
    /\ spc = "idle"
    /\ IF call.raised
          THEN /\ Raise("error")
               /\ UNCHANGED <<total_found, total_new, scroll_count,
                              no_new_count, prev_resp_count, prev_item_count,
                              stop>>
          ELSE /\ total_found' = total_found + Len(call.items)
               /\ total_new' = total_new + call.ret
               /\ AfterInitialParse(all_items)
               /\ UNCHANGED <<exc, polls>>
    /\ UNCHANGED <<storeVars, since, feed, runs, all_items,
                   collected_responses, result, opened, closed, delivered,
                   progress>>
    /\ UNCHANGED <<conns, query, hook, pageVars, ftsVars>>

\* _scroll_page: await page.evaluate("window.scrollTo(...)")
ScrollEval ==
    /\ pc = "scroll_eval"
    /\ \E ok \in BOOLEAN :
          IF ok THEN pc' = "scroll_delay" /\ UNCHANGED <<exc, polls>>
                ELSE Raise("error")
    /\ UNCHANGED <<storeVars, cliVars, all_items, collected_responses,
                   prev_resp_count, prev_item_count, scroll_count,
                   no_new_count, result, opened, closed, delivered, progress,
                   stop>>
    /\ UNCHANGED <<conns, query, hook, pageVars, ftsVars>>

\* _scroll_page: await asyncio.sleep(delay); scroll_count += 1
ScrollDelay ==
    /\ pc = "scroll_delay"
    /\ scroll_count' = scroll_count + 1
    /\ pc' = "post_scroll"
    /\ UNCHANGED <<storeVars, cliVars, all_items, collected_responses,
                   prev_resp_count, prev_item_count, no_new_count, polls, exc,
                   result, opened, closed, delivered, progress, stop>>
    /\ UNCHANGED <<conns, query, hook, pageVars, ftsVars>>

\* await asyncio.sleep(0.5), then the first test of the poll loop
PostScroll ==
    /\ pc = "post_scroll"
    /\ IF Len(collected_responses) > prev_resp_count
          THEN ParseNew
          ELSE /\ pc' = "poll_scroll"
               /\ polls' = 1
               /\ UNCHANGED <<storeVars, cliVars, all_items,
                              collected_responses, prev_resp_count,
                              prev_item_count, scroll_count, no_new_count,
                              exc, result, opened, closed, delivered,
                              progress, stop>>
    /\ UNCHANGED <<conns, query, hook, pageVars, ftsVars>>

\* for _ in range(10): if len(collected_responses) > prev_resp_count: break
\*                     await asyncio.sleep(0.5)
PollScroll ==
    /\ pc = "poll_scroll"
    /\ IF polls < ScrollPollAttempts
          /\ ~(Len(collected_responses) > prev_resp_count)
          THEN /\ polls' = polls + 1
               /\ UNCHANGED <<storeVars, pc, cliVars, all_items,
                              collected_responses, prev_resp_count,
                              prev_item_count, scroll_count, no_new_count,
                              exc, result, opened, closed, delivered,
                              progress, stop>>
          ELSE ParseNew
    /\ UNCHANGED <<conns, query, hook, pageVars, ftsVars>>

\* on_batch returned or raised (scroll iteration)
OnBatchScrollReturn ==
    /\ pc = "on_batch_scroll"
    /\ spc = "idle"
    /\ IF call.raised
          THEN /\ Raise("error")
               /\ UNCHANGED <<total_found, total_new, scroll_count,
                              no_new_count, prev_resp_count, prev_item_count,
                              stop, progress>>
          ELSE /\ total_found' = total_found + Len(call.items)
               /\ total_new' = total_new + call.ret
               /\ AfterParseNew(all_items)
               /\ UNCHANGED <<exc, polls>>
    /\ UNCHANGED <<storeVars, since, feed, runs, all_items,
                   collected_responses, result, opened, closed, delivered>>
    /\ UNCHANGED <<conns, query, hook, pageVars, ftsVars>>

\* finally: await context.close(); then the exception goes on, or the
\* accumulation is deduplicated, filtered, sorted and returned
Close ==
    /\ pc = "close"
    /\ closed' = closed + 1
    /\ IF exc = None
          THEN /\ result' = PostProcess(all_items, since)
               /\ pc' = "done"
          ELSE /\ result' = result
               /\ pc' = "raised"
    /\ UNCHANGED <<storeVars, cliVars, all_items, collected_responses,
                   prev_resp_count, prev_item_count, scroll_count,
                   no_new_count, polls, exc, opened, delivered, progress,
                   stop>>
    /\ UNCHANGED <<conns, query, hook, pageVars, ftsVars>>

\* The task is cancelled (Ctrl-C under asyncio.run): CancelledError is raised
\* at the await the coroutine is suspended in.
Cancel ==
    /\ pc \in CancelPoints
    /\ exc' = "cancelled"
    /\ pc' = IF pc \in BeforeTry THEN "raised" ELSE "close"
    /\ polls' = 0
    /\ UNCHANGED <<storeVars, cliVars, all_items, collected_responses,
                   prev_resp_count, prev_item_count, scroll_count,
                   no_new_count, result, opened, closed, delivered, progress,
                   stop>>
    /\ UNCHANGED <<conns, query, hook, pageVars, ftsVars>>

\* on_response(response), the hook registered with page.on("response"):
\*     try: body = await response.json()
\*          if response_filter(response.url, body):
\*              collected_responses.append(body)
\*     except Exception: pass
\* The target serves the same payloads, in the same order, to every visit.
on_response ==
    /\ pc \in InTry
    /\ \E response \in Responses :
          /\ hook' = response
          /\ IF json(response) = "returns" /\ filter_fn(response) = "true"
             THEN LET k == Len(collected_responses) + 1
                  IN /\ Len(collected_responses) < MaxResponses
                     /\ k <= Len(feed) => response.body = feed[k]
                     /\ collected_responses' =
                            Append(collected_responses, response.body)
                     /\ feed' = IF k <= Len(feed) THEN feed
                                ELSE Append(feed, response.body)
             ELSE UNCHANGED <<collected_responses, feed>>
    /\ UNCHANGED <<storeVars, pc, since, total_found, total_new, runs,
                   all_items, prev_resp_count, prev_item_count, scroll_count,
                   no_new_count, polls, exc, result, opened, closed,
                   delivered, progress, stop>>
    /\ UNCHANGED <<conns, query, pageVars, ftsVars>>

\* The hook on a response it captures.  (A response the hook discards
\* changes nothing a run reads.)
OnResponse == on_response /\ collected_responses' # collected_responses

(* --------------------------- crawl command ----------------------------- *)
EngineReset ==
    /\ all_items' = <<>>
    /\ collected_responses' = <<>>
    /\ prev_resp_count' = 0
    /\ prev_item_count' = 0
    /\ scroll_count' = 0
    /\ no_new_count' = 0
    /\ polls' = 0
    /\ exc' = None
    /\ result' = <<>>
    /\ opened' = 0
    /\ closed' = 0
    /\ delivered' = <<>>
    /\ progress' = <<>>
    /\ stop' = None

\* _crawl, response-intercept path: since = _parse_since(since_str), or
\* storage.get_latest_timestamp(site) when no --since is given; then
\* scraper.scrape(url, ..., since=since, on_progress, on_batch)
crawl(since_str) ==
    /\ pc = "idle"
    /\ since' = IF since_str = NoTimestamp
                    THEN get_latest_timestamp(tbl_items, "threads", NoAuthor)
                    ELSE since_str
    /\ total_found' = 0
    /\ total_new' = 0
    /\ pc' = "new_context"
    /\ UNCHANGED <<storeVars, feed, runs, engineVars>>
    /\ UNCHANGED <<conns, query, hook, pageVars, ftsVars>>

\* `horus crawl threads [--since ...]`, once
CrawlStart ==
    /\ runs = <<>>
    /\ \E since_str \in {NoTimestamp} \cup Stamps : crawl(since_str)

\* scrape returned: storage.log_crawl(site, url, total_found, total_new,
\* started_at), "Done.", storage.close()
CrawlDone ==
    /\ pc = "done"
    /\ log_crawl("threads", "url", total_found, total_new)
    /\ tbl_items' = tbl_items
    /\ runs' = Append(runs, [since |-> since, outcome |-> "done", stop |-> stop])
    /\ pc' = "idle"
    /\ EngineReset
    /\ UNCHANGED <<spc, u_given, u_list, u_done, new_count, u_again, since,
                   total_found, total_new, feed>>
    /\ UNCHANGED <<conns, query, hook, pageVars, tbl_fts>>

\* The same with an except clause that does not name CancelledError
CrawlAbortedUncaught ==
    /\ pc = "raised"
    /\ close
    /\ runs' = Append(runs, [since |-> since, outcome |-> "failed",
                             stop |-> stop])
    /\ pc' = "idle"
    /\ EngineReset
    /\ UNCHANGED <<db_items, crawl_log, spc, u_given, u_list, u_done,
                   new_count, u_again, since, total_found, total_new, feed>>
    /\ UNCHANGED <<conns, query, hook, pageVars, db_fts>>

\* scrape raised.  CancelledError is caught ("Interrupted.") and the storage
\* closed; any other exception leaves _crawl and the process.  Either way
\* the connection goes without a commit.
CrawlAborted ==
    /\ pc = "raised"
    /\ close
    /\ runs' = Append(runs, [since |-> since,
                             outcome |-> IF exc = "cancelled"
                                            THEN "interrupted" ELSE "failed",
                             stop |-> stop])
    /\ pc' = "idle"
    /\ EngineReset
    /\ UNCHANGED <<db_items, crawl_log, spc, u_given, u_list, u_done,
                   new_count, u_again, since, total_found, total_new, feed>>
    /\ UNCHANGED <<conns, query, hook, pageVars, db_fts>>

(* ------------------------ resumption scenario ------------------------- *)
\* `horus crawl threads` without --since: at first, and once more after an
\* interrupted invocation
CrawlDefault ==
    /\ runs = <<>> \/ (Len(runs) = 1 /\ runs[1].outcome = "interrupted")
    /\ crawl(NoTimestamp)

\* The driver's calls and the store's statements, when they succeed
NewContextOk == NewContext /\ pc' = "new_page"
NewPageOk == NewPage /\ pc' = "goto"
GotoOk == Goto /\ exc' = None
ScrollEvalOk == ScrollEval /\ pc' = "scroll_delay"
UpsertItemsIterOk == UpsertItemsIter /\ spc' = "upsert_items"

\* Ctrl-C during the first invocation
CancelFirst == runs = <<>> /\ Cancel

(* --------------------------- store client ------------------------------ *)
ClientUpsertItems ==
    /\ spc = "idle"
    /\ \E again \in BOOLEAN :
          /\ again => (call.op = "upsert_items" /\ ~call.raised)
          /\ upsert_items(again, IF again THEN call.items ELSE <<>>, again)
    /\ UNCHANGED <<db_items, tbl_items, crawl_log, pc, cliVars, engineVars>>
    /\ UNCHANGED <<conns, query, hook, pageVars, ftsVars>>

ClientClose ==
    /\ spc = "idle"
    /\ call.op # "close"
    /\ close
    /\ UNCHANGED <<db_items, crawl_log, spc, u_given, u_list, u_done,
                   new_count, u_again, pc, cliVars, engineVars>>
    /\ UNCHANGED <<conns, query, hook, pageVars, db_fts>>

\* A client of the store calls log_crawl, as _crawl does after a traversal
ClientLogCrawl ==
    /\ spc = "idle"
    /\ Len(crawl_log) < MaxLog
    /\ \E site_id \in Sites : \E items_found \in 0..1 :
          log_crawl(site_id, "url", items_found, 0)
    /\ UNCHANGED <<tbl_items, spc, u_given, u_list, u_done, new_count,
                   u_again, pc, cliVars, engineVars>>
    /\ UNCHANGED <<conns, query, hook, pageVars, tbl_fts>>

(* ------------------------------ readers -------------------------------- *)
AuthorNames == {<<"name", c>> : c \in Contents}

NoQuery == [op |-> "none", site_id |-> None, author_name |-> NoAuthor,
            since |-> NoTimestamp, q |-> <<>>, url |-> None, limit |-> 0,
            offset |-> 0, raised |-> FALSE, ret |-> <<>>]

\* _row_to_item
_row_to_item(row) ==
    [id |-> row.id, site_id |-> row.site_id, url |-> row.url,
     text |-> row.text, author_id |-> row.author_id,
     author_name |-> row.author_name,
     timestamp |-> fromisoformat(row.timestamp),
     extra |-> json_loads(row.extra)]

\* The WHERE clause with timestamp >= ?
WhereSinceInclusive(tbl, site_id, author_name, cutoff) ==
    {r \in tbl :
        /\ site_id # None => r.site_id = site_id
        /\ author_name # NoAuthor => r.author_name = author_name
        /\ cutoff # NoTimestamp => ~TextLess(r.timestamp, isoformat(cutoff))}

\* WHERE 1=1 [AND site_id = ?] [AND author_name = ?] [AND timestamp > ?]
Where(tbl, site_id, author_name, cutoff) ==
    {r \in tbl :
        /\ site_id # None => r.site_id = site_id
        /\ author_name # NoAuthor => r.author_name = author_name
        /\ cutoff # NoTimestamp => TextLess(isoformat(cutoff), r.timestamp)}

\* ORDER BY timestamp DESC: every order of the rows in which no row comes
\* before one with a greater timestamp text (rows of equal timestamp come
\* in an order the query does not fix)
OrderByTimestampDesc(rows) ==
    {L \in [1..Cardinality(rows) -> rows] :
        /\ \A i, j \in 1..Cardinality(rows) : i # j => L[i] # L[j]
        /\ \A i, j \in 1..Cardinality(rows) :
              i < j => ~TextLess(L[i].timestamp, L[j].timestamp)}

\* LIMIT ? OFFSET ?
LimitOffset(L, limit, offset) ==
    SubSeq(L, offset + 1,
           IF offset + limit < Len(L) THEN offset + limit ELSE Len(L))

\* get_items(site_id, author_name, since, limit, offset): the lists the
\* query can return
get_items(tbl, site_id, author_name, cutoff, limit, offset) ==
    {LET rows == LimitOffset(L, limit, offset)
     IN [k \in 1..Len(rows) |-> _row_to_item(rows[k])] :
        L \in OrderByTimestampDesc(Where(tbl, site_id, author_name, cutoff))}

\* A reader calls get_latest_timestamp (one read is followed: a read leaves
\* the store as it was)
QueryLatestTimestamp ==
    /\ spc = "idle"
    /\ query = NoQuery
    /\ \E site_id \in Sites : \E author_name \in {NoAuthor} \cup AuthorNames :
          query' = [NoQuery EXCEPT
                       !.op = "get_latest_timestamp",
                       !.site_id = site_id, !.author_name = author_name,
                       !.ret = get_latest_timestamp(tbl_items, site_id,
                                                    author_name)]
    /\ UNCHANGED <<storeVars, pc, cliVars, engineVars, conns, hook, pageVars,
                   ftsVars>>

\* A reader calls get_items
QueryItems ==
    /\ spc = "idle"
    /\ query = NoQuery
    /\ \E site_id \in {None} \cup Sites :
       \E author_name \in {NoAuthor} \cup AuthorNames :
       \E cutoff \in {NoTimestamp} \cup Stamps :
       \E limit \in 0..MaxLimit : \E offset \in 0..MaxOffset :
       \E ret \in get_items(tbl_items, site_id, author_name, cutoff, limit,
                            offset) :
          query' = [NoQuery EXCEPT
                       !.op = "get_items", !.site_id = site_id,
                       !.author_name = author_name, !.since = cutoff,
                       !.limit = limit, !.offset = offset, !.ret = ret]
    /\ UNCHANGED <<storeVars, pc, cliVars, engineVars, conns, hook, pageVars,
                   ftsVars>>

\* SELECT MAX(timestamp): the greatest timestamp text of the rows, NULL
\* (here the empty text) without rows
MAX(rows) ==
    LET ts == {r.timestamp : r \in rows}
    IN IF ts = {} THEN <<>>
       ELSE CHOOSE m \in ts : \A t \in ts : ~TextLess(m, t)

\* get_stats(site_id) with a total that is not scoped to the site
get_stats_total_unscoped(tbl, site_id) ==
    IF site_id # None
    THEN [total |-> Cardinality(tbl),
          by_site |-> [s \in {site_id} |-> Cardinality(tbl)],
          latest_by_site |->
              [s \in {site_id} |-> MAX({r \in tbl : r.site_id = site_id})]]
    ELSE [total |-> Cardinality(tbl),
          by_site |-> [s \in {r.site_id : r \in tbl} |->
                          Cardinality({r \in tbl : r.site_id = s})],
          latest_by_site |-> [s \in {r.site_id : r \in tbl} |->
                                 MAX({r \in tbl : r.site_id = s})]]

\* get_stats(site_id=None).  With a site: SELECT COUNT(*) and SELECT
\* MAX(timestamp) WHERE site_id = ?, by_site = {site_id: total},
\* latest_by_site = {site_id: latest}.  Without: SELECT COUNT(*) FROM items,
\* and one entry per row of SELECT site_id, COUNT(*), MAX(timestamp) FROM
\* items GROUP BY site_id.
get_stats(tbl, site_id) ==
    IF site_id # None
    THEN LET rows == {r \in tbl : r.site_id = site_id}
         IN [total |-> Cardinality(rows),
             by_site |-> [s \in {site_id} |-> Cardinality(rows)],
             latest_by_site |-> [s \in {site_id} |-> MAX(rows)]]
    ELSE [total |-> Cardinality(tbl),
          by_site |-> [s \in {r.site_id : r \in tbl} |->
                          Cardinality({r \in tbl : r.site_id = s})],
          latest_by_site |-> [s \in {r.site_id : r \in tbl} |->
                                 MAX({r \in tbl : r.site_id = s})]]

\* A reader calls get_stats
QueryStats ==
    /\ spc = "idle"
    /\ query = NoQuery
    /\ \E site_id \in {None} \cup Sites :
          query' = [NoQuery EXCEPT !.op = "get_stats", !.site_id = site_id,
                                   !.ret = get_stats(tbl_items, site_id)]
    /\ UNCHANGED <<storeVars, pc, cliVars, engineVars, conns, hook, pageVars,
                   ftsVars>>

(* ------------------------------ search --------------------------------- *)
\* A text is a string of characters; "_" is a character like any other in a
\* text and in an FTS5 bareword, and the one-character wildcard of LIKE.
Chars == {"a", "_"}
Texts == UNION {[1..n -> Chars] : n \in 0..MaxText}

\* tokenize='trigram': the tokens of a text are its substrings of three
\* characters, each at its position
trigram(text) ==
    [k \in 1..(IF Len(text) >= 3 THEN Len(text) - 2 ELSE 0) |->
        SubSeq(text, k, k + 2)]

\* The triggers items_ai and items_au keep one items_fts entry per row of
\* items, made of the row's current text
items_fts(tbl) == [r \in tbl |-> trigram(r.text)]

\* items_fts MATCH ?: the query, a bareword, is a phrase of its trigrams; a
\* row matches when its tokens hold the phrase at consecutive positions
MATCH(tokens, query_text) ==
    LET phrase == trigram(query_text)
    IN \E at \in 0..(Len(tokens) - Len(phrase)) :
          \A j \in 1..Len(phrase) : tokens[at + j] = phrase[j]

\* f"%{query}%"
LikePattern(query_text) == <<"%">> \o query_text \o <<"%">>

\* text LIKE pattern: % stands for any string, _ for any one character
RECURSIVE LIKE(_, _)
LIKE(text, pattern) ==
    IF pattern = <<>> THEN text = <<>>
    ELSE IF Head(pattern) = "%"
    THEN LIKE(text, Tail(pattern))
            \/ (text # <<>> /\ LIKE(Tail(text), pattern))
    ELSE /\ text # <<>>
         /\ Head(pattern) = "_" \/ Head(pattern) = Head(text)
         /\ LIKE(Tail(text), Tail(pattern))

\* use_fts = len(query) >= 3
use_fts(query_text) == Len(query_text) >= 3

\* search(query, site_id, limit): the lists the query can return
\* SELECT i.* FROM items i JOIN items_fts ... WHERE items_fts MATCH ?
\*   or SELECT i.* FROM items i WHERE i.text LIKE ?
\* [AND i.site_id = ?] ORDER BY i.timestamp DESC LIMIT ?
search(tbl, query_text, site_id, limit) ==
    LET rows == {r \in tbl :
                    /\ IF use_fts(query_text)
                          THEN MATCH(items_fts(tbl)[r], query_text)
                          ELSE LIKE(r.text, LikePattern(query_text))
                    /\ site_id # None => r.site_id = site_id}
    IN {LET page == LimitOffset(L, limit, 0)
        IN [k \in 1..Len(page) |-> _row_to_item(page[k])] :
           L \in OrderByTimestampDesc(rows)}

\* A reader calls search
QuerySearch ==
    /\ spc = "idle"
    /\ query = NoQuery
    /\ \E query_text \in Texts : \E site_id \in {None} \cup Sites :
       \E limit \in 0..MaxLimit :
       \E ret \in search(tbl_items, query_text, site_id, limit) :
          query' = [NoQuery EXCEPT !.op = "search", !.q = query_text,
                                   !.site_id = site_id, !.limit = limit,
                                   !.ret = ret]
    /\ UNCHANGED <<storeVars, pc, cliVars, engineVars, conns, hook, pageVars,
                   ftsVars>>

(* ------------------------------- pages --------------------------------- *)
PageUrls == {"u1", "u2"}
PageSites == {"web", "threads"}

\* models.py ScrapedPage.  One content value stands for a capture of the
\* document: title and markdown are both set from it.
ScrapedPage(url, site_id, content, fetched_at) ==
    [url |-> url, site_id |-> site_id, title |-> <<"title", content>>,
     markdown |-> <<"md", content>>, fetched_at |-> fetched_at]

Pages ==
    {ScrapedPage(url, site_id, content, fetched_at) :
        url \in PageUrls, site_id \in PageSites, content \in Contents,
        fetched_at \in Stamps}

NoPage == [url |-> None, site_id |-> None, title |-> <<>>, markdown |-> <<>>,
           fetched_at |-> NoTimestamp]
NoPageCall == [op |-> "none", page |-> NoPage, ret |-> FALSE]

\* The values of the INSERT: (page.url, page.site_id, page.title,
\* page.markdown, page.fetched_at.isoformat())
PageRow(page) ==
    [url |-> page.url, site_id |-> page.site_id, title |-> page.title,
     markdown |-> page.markdown, fetched_at |-> isoformat(page.fetched_at)]

\* _row_to_page
_row_to_page(row) ==
    [url |-> row.url, site_id |-> row.site_id, title |-> row.title,
     markdown |-> row.markdown, fetched_at |-> fromisoformat(row.fetched_at)]

\* A write that keeps one capture per site: DELETE FROM pages WHERE
\* site_id = ?, then INSERT
InsertReplacingSite(tbl, page) ==
    {r \in tbl : r.site_id # page.site_id} \cup {PageRow(page)}

\* INSERT OR IGNORE: a url that has a row keeps it
InsertOrIgnore(tbl, page) ==
    IF \E r \in tbl : r.url = page.url THEN tbl ELSE tbl \cup {PageRow(page)}

\* INSERT OR REPLACE INTO pages, url being the PRIMARY KEY: the row of the
\* url, if any, is deleted and the new row inserted
InsertOrReplace(tbl, page) ==
    {r \in tbl : r.url # page.url} \cup {PageRow(page)}

\* upsert_page(page): SELECT 1 FROM pages WHERE url = ?; INSERT OR REPLACE;
\* self._conn.commit(); return existing is None
upsert_page(page) ==
    LET existing == \E r \in pages : r.url = page.url
    IN /\ pages' = InsertOrReplace(pages, page)
       /\ db_items' = tbl_items
       /\ db_fts' = tbl_fts
       /\ page_call' = [op |-> "upsert_page", page |-> page,
                        ret |-> ~existing]

\* A client of the store calls upsert_page (before the read that is
\* followed)
ClientUpsertPage ==
    /\ spc = "idle"
    /\ query = NoQuery
    /\ \E page \in Pages : upsert_page(page)
    /\ UNCHANGED <<tbl_items, crawl_log, spc, u_given, u_list, u_done,
                   new_count, u_again, call, pc, cliVars, engineVars, conns,
                   query, hook, tbl_fts>>

\* ORDER BY fetched_at DESC: every order of the rows in which no row comes
\* before one with a greater fetched_at text
OrderByFetchedAtDesc(rows) ==
    {L \in [1..Cardinality(rows) -> rows] :
        /\ \A i, j \in 1..Cardinality(rows) : i # j => L[i] # L[j]
        /\ \A i, j \in 1..Cardinality(rows) :
              i < j => ~TextLess(L[i].fetched_at, L[j].fetched_at)}

\* get_pages(*, site_id=None, limit=50, offset=0): the lists the query can
\* return.  SELECT * FROM pages WHERE 1=1 [AND site_id = ?]
\* ORDER BY fetched_at DESC LIMIT ? OFFSET ?
get_pages(tbl, site_id, limit, offset) ==
    {LET rows == LimitOffset(L, limit, offset)
     IN [k \in 1..Len(rows) |-> _row_to_page(rows[k])] :
        L \in OrderByFetchedAtDesc(
                 {r \in tbl : site_id # None => r.site_id = site_id})}

\* get_page(url): SELECT * FROM pages WHERE url = ?
get_page(tbl, url) ==
    IF \E r \in tbl : r.url = url
    THEN <<_row_to_page(CHOOSE r \in tbl : r.url = url)>>
    ELSE <<>>

\* A reader calls get_pages, as cli.py export does, with the filters it has:
\* storage.get_pages(site_id=site, url=url, limit=limit).  get_pages takes
\* no url: a call that passes one raises TypeError (url = None here is a
\* call that does not pass it).
QueryPages ==
    /\ spc = "idle"
    /\ query = NoQuery
    /\ \E site_id \in {None} \cup PageSites : \E url \in {None} \cup PageUrls :
       \E limit \in 0..MaxLimit : \E offset \in 0..MaxOffset :
          IF url # None
          THEN query' = [NoQuery EXCEPT
                            !.op = "get_pages", !.site_id = site_id,
                            !.url = url, !.limit = limit, !.offset = offset,
                            !.raised = TRUE]
          ELSE \E ret \in get_pages(pages, site_id, limit, offset) :
                  query' = [NoQuery EXCEPT
                               !.op = "get_pages", !.site_id = site_id,
                               !.limit = limit, !.offset = offset,
                               !.ret = ret]
    /\ UNCHANGED <<storeVars, pc, cliVars, engineVars, conns, hook, pageVars,
                   ftsVars>>

\* A reader calls get_page
QueryPage ==
    /\ spc = "idle"
    /\ query = NoQuery
    /\ \E url \in PageUrls :
          query' = [NoQuery EXCEPT !.op = "get_page", !.url = url,
                                   !.ret = get_page(pages, url)]
    /\ UNCHANGED <<storeVars, pc, cliVars, engineVars, conns, hook, pageVars,
                   ftsVars>>

PageInit == pages = {} /\ page_call = NoPageCall

(* --------------------------- threads replies --------------------------- *)
\* A replies payload is data.mediaData.edges; each edge is its
\* node.thread_items; a thread item has a post or none; a post has a pk and
\* a taken_at or none (NoTimestamp).
Pks == 1..MaxPk
ThreadPosts == [pk : Pks, taken_at : {NoTimestamp, MaxStamp}]
NoPost == [pk |-> 0, taken_at |-> NoTimestamp]
ThreadItems == [post : ThreadPosts \cup {NoPost}]
Edges == UNION {[1..n -> ThreadItems] : n \in 0..MaxThread}
ReplyPayloads == UNION {[1..n -> Edges] : n \in 0..MaxEdges}

\* str(pk), and None where an id is expected
str(pk) == <<"str", pk>>
NoId == <<>>

\* _parse_item(post_data, parent_post_id=, conversation_id=, is_reply=):
\* None (here no item) without taken_at, else the ScrapedItem; of its fields
\* the id, the timestamp and the three thread fields of extra are kept
_parse_item(post_data, parent_post_id, conversation_id, is_reply) ==
    IF post_data.taken_at = NoTimestamp THEN <<>>
    ELSE <<[id |-> str(post_data.pk), site_id |-> "threads",
            timestamp |-> post_data.taken_at,
            extra |-> [is_reply |-> is_reply,
                       parent_post_id |-> parent_post_id,
                       conversation_id |-> conversation_id]]>>

\* The inner loop with prev_id set from every post, emitted or not
RECURSIVE thread_items_loop_any_parent(_, _)
thread_items_loop_any_parent(thread_items, conversation_id) ==
    IF thread_items = <<>> THEN <<>>
    ELSE LET items == thread_items_loop_any_parent(Front(thread_items),
                                                   conversation_id)
             before == SelectSeq(Front(thread_items),
                                 LAMBDA t : t.post # NoPost)
             prev_id == IF before = <<>> THEN NoId
                        ELSE str(Last(before).post.pk)
             post_data == Last(thread_items).post
         IN IF post_data = NoPost THEN items
            ELSE items \o _parse_item(post_data, prev_id, conversation_id,
                                      prev_id # NoId)

\* prev_id = None; for thread_item in thread_items: ... the items of one
\* edge.  prev_id is the id of the item appended last, None before the
\* first.
RECURSIVE thread_items_loop(_, _)
thread_items_loop(thread_items, conversation_id) ==
    IF thread_items = <<>> THEN <<>>
    ELSE LET items == thread_items_loop(Front(thread_items), conversation_id)
             prev_id == IF items = <<>> THEN NoId ELSE Last(items).id
             post_data == Last(thread_items).post
         IN IF post_data = NoPost THEN items
            ELSE items \o _parse_item(post_data, prev_id, conversation_id,
                                      prev_id # NoId)

\* ThreadsAdapter._parse_replies(edges): an edge without thread_items or
\* without a post in thread_items[0] gives nothing; else the first post's
\* pk is the conversation root
RECURSIVE _parse_replies(_)
_parse_replies(edges) ==
    IF edges = <<>> THEN <<>>
    ELSE LET thread_items == Last(edges)
         IN _parse_replies(Front(edges)) \o
               (IF thread_items = <<>> THEN <<>>
                ELSE IF thread_items[1].post = NoPost THEN <<>>
                ELSE thread_items_loop(thread_items,
                                       str(thread_items[1].post.pk)))

\* adapter._parse_replies(edges) is called with the edges of the payload
\* captured last, and returns
ParseReplies ==
    /\ query = NoQuery
    /\ hook.kind = "replies"
    /\ query' = [NoQuery EXCEPT !.op = "_parse_replies",
                                !.ret = _parse_replies(hook.body)]
    /\ UNCHANGED <<storeVars, pc, cliVars, engineVars, conns, hook, pageVars,
                   ftsVars>>

(* ------------------------- concurrent writers ------------------------- *)
\* Two processes, each with its own HorusStorage on the same database file
\* (journal_mode=WAL).  sqlite3 opens a transaction before the first INSERT
\* or UPDATE of a call; one connection at a time holds the write lock, from
\* its first write to its commit or close.  A SELECT outside a transaction
\* reads the committed table.
Writers == {1, 2}

NoConn == [pc |-> "idle", n |-> 0, item |-> None, existing |-> FALSE,
           tx |-> FALSE, view |-> {}, fts |-> {}]

\* The Records the writers submit: both sites' p1
WriterItems == {item \in StoreItems : item.id = "p1"}

\* What connection w reads
View(w) == IF conns[w].tx THEN conns[w].view ELSE db_items

\* The index as connection w reads it
FtsView(w) == IF conns[w].tx THEN conns[w].fts ELSE db_fts

\* Another connection holds the write lock
Locked(w) == \E o \in Writers \ {w} : conns[o].tx

\* A table without the key constraint accepts every row
KeyConflictNone(tbl, item) == FALSE

\* PRIMARY KEY (site_id, id): the INSERT of a key that has a row fails
KeyConflict(tbl, item) == \E r \in tbl : SameKey(r, item)

\* upsert_items(items) is called on connection w
WriterCall ==
    \E w \in Writers :
        /\ conns[w].pc = "idle"
        /\ conns' = [conns EXCEPT ![w].pc = "select", ![w].n = 0]
        /\ UNCHANGED <<storeVars, pc, cliVars, engineVars, query, hook,
                       pageVars, ftsVars>>

\* for item in items: existing = SELECT 1 FROM items WHERE site_id, id
WriterSelect ==
    \E w \in Writers : \E item \in WriterItems :
        /\ conns[w].pc = "select"
        /\ conns[w].n < MaxBatch
        /\ conns' = [conns EXCEPT ![w].pc = "write", ![w].item = item,
                                  ![w].existing = SelectExisting(View(w), item)]
        /\ UNCHANGED <<storeVars, pc, cliVars, engineVars, query, hook,
                       pageVars, ftsVars>>

\* if existing: UPDATE ... else: INSERT ...  The first write of the call
\* takes the write lock: while another connection holds it the statement
\* waits, and raises "database is locked" when the busy timeout runs out.
\* An INSERT that breaks the key constraint raises IntegrityError.  No
\* rollback follows an exception.
WriterWrite ==
    \E w \in Writers :
        /\ conns[w].pc = "write"
        /\ LET c == conns[w]
               tbl == View(w)
               fts == FtsView(w)
           IN IF Locked(w)
              THEN conns' = [conns EXCEPT ![w].pc = "raised"]
              ELSE IF c.existing
              THEN conns' = [conns EXCEPT
                                ![w].pc = "select", ![w].n = c.n + 1,
                                ![w].tx = TRUE,
                                ![w].view = UpdateRow(tbl, c.item),
                                ![w].fts =
                                    IF Updated(tbl, c.item) # {}
                                    THEN items_au(fts, RowOf(tbl, c.item),
                                             RowOf(UpdateRow(tbl, c.item),
                                                   c.item))
                                    ELSE fts]
              ELSE IF KeyConflict(tbl, c.item)
              THEN conns' = [conns EXCEPT ![w].pc = "raised", ![w].tx = TRUE,
                                         ![w].view = tbl, ![w].fts = fts]
              ELSE conns' = [conns EXCEPT
                                ![w].pc = "select", ![w].n = c.n + 1,
                                ![w].tx = TRUE,
                                ![w].view = InsertRow(tbl, c.item),
                                ![w].fts =
                                    items_ai(fts, RowOf(InsertRow(tbl, c.item),
                                                        c.item))]
        /\ UNCHANGED <<storeVars, pc, cliVars, engineVars, query, hook,
                       pageVars, ftsVars>>

\* self._conn.commit(); return new_count
WriterCommit ==
    \E w \in Writers :
        /\ conns[w].pc = "select"
        /\ db_items' = View(w)
        /\ db_fts' = FtsView(w)
        /\ conns' = [conns EXCEPT ![w].pc = "done", ![w].tx = FALSE,
                                  ![w].view = {}, ![w].fts = {}]
        /\ UNCHANGED <<tbl_items, crawl_log, spc, u_given, u_list, u_done,
                       new_count, u_again, call, pc, cliVars, engineVars,
                       query, hook, pageVars, tbl_fts>>

\* The process ends: its connection goes, an open transaction is rolled back
WriterClose ==
    \E w \in Writers :
        /\ conns[w].pc \in {"done", "raised"}
        /\ conns' = [conns EXCEPT ![w] = NoConn]
        /\ UNCHANGED <<storeVars, pc, cliVars, engineVars, query, hook,
                       pageVars, ftsVars>>

(* -------------------------- specifications ----------------------------- *)
StoreInit ==
    /\ db_items = {} /\ tbl_items = {}
    /\ db_fts = {} /\ tbl_fts = {}
    /\ crawl_log = <<>>
    /\ spc = "idle"
    /\ u_given = FALSE /\ u_list = <<>> /\ u_done = <<>>
    /\ new_count = 0 /\ u_again = FALSE
    /\ call = NoCall

EngineInit ==
    /\ pc = "idle"
    /\ since = NoTimestamp
    /\ total_found = 0 /\ total_new = 0
    /\ all_items = <<>> /\ collected_responses = <<>>
    /\ prev_resp_count = 0 /\ prev_item_count = 0
    /\ scroll_count = 0 /\ no_new_count = 0 /\ polls = 0
    /\ exc = None /\ result = <<>>
    /\ opened = 0 /\ closed = 0
    /\ delivered = <<>> /\ progress = <<>> /\ stop = None
    /\ feed = <<>> /\ runs = <<>>

WriterInit == conns = [w \in Writers |-> NoConn]

Init ==
    /\ StoreInit /\ EngineInit /\ WriterInit
    /\ query = NoQuery /\ hook = NoResponse /\ PageInit

StoreNext ==
    \/ ClientUpsertItems
    \/ UpsertItemsIter
    \/ UpsertItemsCommit
    \/ ClientClose

StoreSpec == Init /\ [][StoreNext]_vars

\* The tables upsert_items can leave committed: the rows of any Records
\* with distinct keys
RECURSIVE InsertAll(_)
InsertAll(items) ==
    IF items = {} THEN {}
    ELSE LET item == CHOOSE x \in items : TRUE
         IN InsertRow(InsertAll(items \ {item}), item)

\* The index those inserts leave
InsertAllFts(tbl) == {[rowid |-> rowid(r), text |-> r.text] : r \in tbl}

StoredTables ==
    {InsertAll(items) : items \in {S \in SUBSET StoreItems :
        \A a, b \in S : SameKey(a, b) => a = b}}

\* Readers of a store that holds any such table
QueryInit ==
    /\ db_items \in StoredTables /\ tbl_items = db_items
    /\ db_fts = InsertAllFts(db_items) /\ tbl_fts = db_fts
    /\ crawl_log = <<>>
    /\ spc = "idle"
    /\ u_given = FALSE /\ u_list = <<>> /\ u_done = <<>>
    /\ new_count = 0 /\ u_again = FALSE
    /\ call = NoCall
    /\ EngineInit /\ WriterInit /\ query = NoQuery /\ hook = NoResponse /\ PageInit

QueryNext ==
    \/ QueryLatestTimestamp
    \/ QueryItems
    \/ QueryStats

QuerySpec == QueryInit /\ [][QueryNext]_vars

\* The Records of a store that is searched: p1 of each site, with a text
SearchItems ==
    {[ScrapedItem("p1", site_id, "old", t) EXCEPT !.text = text] :
        site_id \in Sites, text \in Texts, t \in Stamps}

SearchTables ==
    {InsertAll(items) : items \in
        {S \in {{}} \cup {{a, b} : a, b \in SearchItems} :
            \A a, b \in S : SameKey(a, b) => a = b}}

SearchInit ==
    /\ db_items \in SearchTables /\ tbl_items = db_items
    /\ db_fts = InsertAllFts(db_items) /\ tbl_fts = db_fts
    /\ crawl_log = <<>>
    /\ spc = "idle"
    /\ u_given = FALSE /\ u_list = <<>> /\ u_done = <<>>
    /\ new_count = 0 /\ u_again = FALSE
    /\ call = NoCall
    /\ EngineInit /\ WriterInit /\ query = NoQuery /\ hook = NoResponse /\ PageInit

SearchNext == QuerySearch

SearchSpec == SearchInit /\ [][SearchNext]_vars

PagesNext ==
    \/ ClientUpsertPage
    \/ QueryPages
    \/ QueryPage

PagesSpec == Init /\ [][PagesNext]_vars

\* One client of the store archiving threads Records and captures of web
\* pages taken at one time: every store operation, in any order
ArchiveUpsertItems == ClientUpsertItems /\ ~u_again'

ArchiveUpsertItemsIter ==
    /\ UpsertItemsIter
    /\ \A k \in 1..Len(u_done') :
          u_done'[k].site_id = "threads" /\ u_done'[k].timestamp = 1

ArchiveUpsertPage ==
    /\ ClientUpsertPage
    /\ page_call'.page.site_id = "web"
    /\ page_call'.page.fetched_at = 1

ArchiveNext ==
    \/ ArchiveUpsertItems
    \/ ArchiveUpsertItemsIter
    \/ UpsertItemsCommit
    \/ ClientLogCrawl
    \/ ArchiveUpsertPage
    \/ ClientClose
    \/ QueryLatestTimestamp
    \/ QueryPage

ArchiveSpec == Init /\ [][ArchiveNext]_vars

\* A store client archiving threads Records with texts: upsert_items with
\* any list of them, any number of times
IndexTexts == {text \in Texts : Len(text) >= 2 /\ text[1] = "a"}
IndexItems ==
    {[ScrapedItem(id, "threads", "old", 1) EXCEPT !.text = text] :
        id \in Ids, text \in IndexTexts}

IndexUpsertItems ==
    /\ spc = "idle"
    /\ \E list \in UNION {[1..n -> IndexItems] : n \in 1..MaxBatch} :
          upsert_items(TRUE, list, FALSE)
    /\ UNCHANGED <<db_items, tbl_items, crawl_log, pc, cliVars, engineVars>>
    /\ UNCHANGED <<conns, query, hook, pageVars, ftsVars>>

IndexNext ==
    \/ IndexUpsertItems
    \/ UpsertItemsIter
    \/ UpsertItemsCommit
    \/ ClientClose

IndexSpec == Init /\ [][IndexNext]_vars

\* The parser on any replies payload
RepliesInit ==
    /\ StoreInit /\ EngineInit /\ WriterInit
    /\ query = NoQuery /\ PageInit
    /\ hook \in [url : {"graphql"}, kind : {"replies"}, body : ReplyPayloads]

RepliesNext == ParseReplies

RepliesSpec == RepliesInit /\ [][RepliesNext]_vars

WritersNext ==
    \/ WriterCall
    \/ WriterSelect
    \/ WriterWrite
    \/ WriterCommit
    \/ WriterClose

WritersSpec == Init /\ [][WritersNext]_vars

Next ==
    \/ CrawlStart
    \/ NewContext
    \/ NewPage
    \/ Goto
    \/ PollInit
    \/ Settle
    \/ OnBatchInitReturn
    \/ ScrollEval
    \/ ScrollDelay
    \/ PostScroll
    \/ PollScroll
    \/ OnBatchScrollReturn
    \/ Close
    \/ Cancel
    \/ OnResponse
    \/ UpsertItemsIter
    \/ UpsertItemsCommit
    \/ CrawlDone
    \/ CrawlAborted

Spec == Init /\ [][Next]_vars

\* The steps the program takes by itself: every driver call returns and the
\* event loop resumes the coroutine, so a step that stays possible is taken.
\* Captured responses and Ctrl-C come from outside and are not required.
Run ==
    \/ CrawlStart \/ NewContext \/ NewPage \/ Goto \/ PollInit \/ Settle
    \/ OnBatchInitReturn \/ ScrollEval \/ ScrollDelay \/ PostScroll
    \/ PollScroll \/ OnBatchScrollReturn \/ Close \/ UpsertItemsIter
    \/ UpsertItemsCommit \/ CrawlDone \/ CrawlAborted

LiveSpec == Spec /\ WF_vars(Run)

ResumeNext ==
    \/ CrawlDefault
    \/ NewContextOk
    \/ NewPageOk
    \/ GotoOk
    \/ PollInit
    \/ Settle
    \/ OnBatchInitReturn
    \/ ScrollEvalOk
    \/ ScrollDelay
    \/ PostScroll
    \/ PollScroll
    \/ OnBatchScrollReturn
    \/ Close
    \/ CancelFirst
    \/ OnResponse
    \/ UpsertItemsIterOk
    \/ UpsertItemsCommit
    \/ CrawlDone
    \/ CrawlAborted

ResumeSpec == Init /\ [][ResumeNext]_vars

\* `horus crawl threads --since <the newest time a post can have>`, once
CrawlSinceNewest ==
    /\ runs = <<>>
    /\ crawl(MaxStamp)

\* That invocation with every response the page receives, also those the
\* hook discards; the driver's calls and the store's statements succeed
CaptureNext ==
    \/ CrawlSinceNewest
    \/ NewContextOk
    \/ NewPageOk
    \/ GotoOk
    \/ PollInit
    \/ Settle
    \/ OnBatchInitReturn
    \/ ScrollEvalOk
    \/ ScrollDelay
    \/ PostScroll
    \/ PollScroll
    \/ OnBatchScrollReturn
    \/ Close
    \/ on_response
    \/ UpsertItemsIterOk
    \/ UpsertItemsCommit
    \/ CrawlDone

CaptureSpec == Init /\ [][CaptureNext]_vars

(* ------------------------------ claims --------------------------------- *)
\* The rows of a Record's key, as a query through the connection sees them
RowsOf(item) == {r \in tbl_items : SameKey(r, item)}

\* C1: when upsert_items(R) has returned and upsert_items(R) is called again
\* with the same list, the second call returns 0 and the store holds exactly
\* one row for every (site_id, id) of R.
C1_IdempotentUpsert ==
    (call.op = "upsert_items" /\ ~call.raised /\ call.again) =>
        /\ call.ret = 0
        /\ \A k \in 1..Len(call.items) :
              /\ Cardinality(RowsOf(call.items[k])) = 1
              /\ RowsOf(call.items[k]) \subseteq db_items

\* C1 case: the second call has returned, for a list of two Records with one
\* key and different content, next to a row of the other site with that id.
C1_Witness ==
    /\ call.op = "upsert_items" /\ ~call.raised /\ call.again
    /\ Len(call.items) = 2
    /\ SameKey(call.items[1], call.items[2])
    /\ call.items[1].text # call.items[2].text
    /\ \E r \in tbl_items : r.id = call.items[1].id
                            /\ r.site_id # call.items[1].site_id

\* C2: upsert_items is atomic per call: what a call that raised wrote for its
\* earlier Records is not in the store afterwards, so the rows a later call
\* commits are rows of Records of that later call.
C2_AtomicPerCall ==
    [][(spc = "upsert_items" /\ spc' = "idle" /\ ~call'.raised) =>
          \A r \in db_items' \ db_items :
              \E k \in 1..Len(u_done) : SameKey(r, u_done[k])]_vars

\* The Records of the batches passed to on_batch, in order
RECURSIVE Flatten(_)
Flatten(batches) ==
    IF batches = <<>> THEN <<>>
    ELSE Flatten(Front(batches)) \o Last(batches).batch

Committed(item) == \E r \in db_items : SameKey(r, item)

\* C3: wherever scrape is suspended in an await it can be cancelled in (and
\* once it has been cancelled), the accumulation is exactly the Records
\* already passed to on_batch, and each of them has a committed row: only
\* captured payloads not yet parsed are lost.
C3_DeliveredBeforeSuspension ==
    (pc \in CancelPoints \/ exc = "cancelled") =>
        /\ all_items = Flatten(delivered)
        /\ \A k \in 1..Len(all_items) : Committed(all_items[k])

\* C3 case: cancelled in a scroll iteration after two batches were stored,
\* with a captured payload not yet parsed.
C3_Witness ==
    /\ exc = "cancelled"
    /\ Len(delivered) = 2
    /\ delivered[2].at = "on_batch_scroll"
    /\ Len(collected_responses) = 3
    /\ Len(all_items) = 2

\* C4: once the context has been opened, every exit of scrape (a return or
\* an exception) has closed it exactly once.
C4_ClosedExactlyOnce ==
    (pc \in {"done", "raised"} /\ opened = 1) => closed = 1

\* The upstream Records of the target, as far as it served them
Upstream == ParseAll(feed)

\* The target serves its posts newest first, each id once
NewestFirst ==
    /\ \A i, j \in 1..Len(Upstream) :
          i < j => Upstream[i].timestamp >= Upstream[j].timestamp
    /\ \A i, j \in 1..Len(Upstream) :
          i # j => Upstream[i].id # Upstream[j].id

\* C5: after an interrupted invocation and a second one with the default
\* since that ended because it had caught up (early bailout or cutoff stop),
\* every upstream Record newer than the first invocation's since is stored.
C5_ResumeCatchesUp ==
    (/\ Len(runs) = 2
     /\ runs[1].outcome = "interrupted"
     /\ runs[2].outcome = "done"
     /\ runs[2].stop \in {"bailout", "cutoff"}
     /\ NewestFirst) =>
        \A k \in 1..Len(Upstream) :
            Upstream[k].timestamp > runs[1].since => Committed(Upstream[k])

\* No batch was parsed in a scroll iteration
NoScrollGrowth ==
    \A k \in 1..Len(delivered) : delivered[k].at = "on_batch_init"

\* C6 as stated: a scroll loop that sees no new item in any iteration ends
\* after exactly 3 iterations.
C6_StagnationBound ==
    (pc = "done" /\ stop # "bailout" /\ NoScrollGrowth) =>
        scroll_count = 3 /\ Len(progress) = 3

\* C6 amended: the same when the iteration limit is at least 3 and the cutoff
\* stop does not apply (no since, nothing accumulated, or every accumulated
\* timestamp above since).
C6_StagnationBoundNoCutoff ==
    (/\ pc = "done" /\ stop # "bailout" /\ NoScrollGrowth
     /\ MaxPages >= 3
     /\ \/ since = NoTimestamp
        \/ \A k \in 1..Len(all_items) : all_items[k].timestamp > since) =>
        scroll_count = 3 /\ Len(progress) = 3 /\ stop = "stagnation"

\* C6 case: since is set, the first page is all above it, nothing else comes
C6_Witness ==
    /\ pc = "done" /\ stop = "stagnation" /\ NoScrollGrowth
    /\ since # NoTimestamp
    /\ Len(all_items) = 2
    /\ scroll_count = 3

\* The batch of the initial parse
InitialParse ==
    IF delivered # <<>> /\ delivered[1].at = "on_batch_init"
       THEN delivered[1].batch ELSE <<>>

\* C7: when since is set and the initial parse yields Records, all with
\* timestamp <= since, scrape makes no scroll iteration (no scroll, no
\* on_progress call) and returns an empty list.
C7_EarlyBailout ==
    (/\ since # NoTimestamp
     /\ InitialParse # <<>>
     /\ \A k \in 1..Len(InitialParse) : InitialParse[k].timestamp <= since) =>
        /\ pc \in {"on_batch_init", "close", "done", "raised"}
        /\ scroll_count = 0
        /\ progress = <<>>
        /\ pc = "done" => result = <<>>

\* C7 case: returned after an initial parse of two Records, one of them with
\* timestamp = since
C7_Witness ==
    /\ pc = "done"
    /\ since # NoTimestamp
    /\ Len(InitialParse) = 2
    /\ \A k \in 1..Len(InitialParse) : InitialParse[k].timestamp <= since
    /\ \E k \in 1..Len(InitialParse) : InitialParse[k].timestamp = since

\* C8: with since = T, no Record of the returned list has timestamp <= T.
C8_CutoffFiltering ==
    (pc = "done" /\ since # NoTimestamp) =>
        \A k \in 1..Len(result) : result[k].timestamp > since

\* C8 case: returned a Record, after accumulating one with timestamp = since
C8_Witness ==
    /\ pc = "done" /\ since # NoTimestamp
    /\ result # <<>>
    /\ \E k \in 1..Len(all_items) : all_items[k].timestamp = since

\* C9: the returned list holds each Record id at most once.
C9_DedupById ==
    pc = "done" =>
        \A i, j \in 1..Len(result) : i # j => result[i].id # result[j].id

\* C9 case: the same payload was parsed in two scroll iterations
C9_Witness ==
    /\ pc = "done"
    /\ result # <<>>
    /\ \E i, j \in 1..Len(delivered) :
          /\ i < j
          /\ delivered[i].at = "on_batch_scroll"
          /\ delivered[j].at = "on_batch_scroll"
          /\ delivered[i].batch = delivered[j].batch

\* C10: every adjacent pair of the returned list L has
\* L[i].timestamp >= L[i+1].timestamp.
C10_DescendingOrder ==
    pc = "done" =>
        \A i \in 1..(Len(result) - 1) :
            result[i].timestamp >= result[i + 1].timestamp

\* C10 case: two Records accumulated oldest first, both returned
C10_Witness ==
    /\ pc = "done"
    /\ Len(result) >= 2
    /\ Len(all_items) >= 2
    /\ all_items[1].timestamp < all_items[2].timestamp

\* C11: on_batch is never called with an empty list, and each call gets
\* exactly the Records of its parse step in parse order, whatever since is:
\* the initial step those of every payload buffered so far, a scroll
\* iteration those of the payloads beyond the pre-scroll payload count.
C11_BatchIsParseStep ==
    /\ \A k \in 1..Len(delivered) : delivered[k].batch # <<>>
    /\ pc = "on_batch_init" =>
          /\ Len(delivered) = 1
          /\ delivered[1].batch = ParseAll(collected_responses)
    /\ pc = "on_batch_scroll" =>
          Last(delivered).batch =
              ParseAll(SubSeq(collected_responses, prev_resp_count + 1,
                              Len(collected_responses)))

\* C11 case: a scroll iteration delivers the two Records of the two payloads
\* captured since the scroll, one of them not above since, after an initial
\* batch and an iteration that parsed nothing
C11_Witness ==
    /\ pc = "on_batch_scroll"
    /\ Len(delivered) = 2
    /\ prev_resp_count = 1
    /\ Len(Last(delivered).batch) = 2
    /\ since # NoTimestamp
    /\ \E k \in 1..2 : Last(delivered).batch[k].timestamp <= since

\* C12: the scroll actions never exceed the iteration limit, the initial poll
\* makes at most 30 checks and each post-scroll poll at most 10, and every
\* run ends (scrape returns or raises and the command finishes).
C12_BoundedRun ==
    /\ [](/\ scroll_count <= MaxPages
          /\ pc = "poll_init" => polls <= InitialPollAttempts
          /\ pc = "poll_scroll" => polls <= ScrollPollAttempts)
    /\ <>(runs # <<>>)

\* C12 case: the run used every scroll the limit allows, and ended
C12_Witness ==
    /\ pc = "done"
    /\ scroll_count = MaxPages
    /\ stop = "limit"

\* No two rows of the table have one key
UniqueKeys(tbl) == \A r1, r2 \in tbl : SameKey(r1, r2) => r1 = r2

\* C13: with two writers in upsert_items at once on overlapping keys, in
\* every interleaving the committed table, and the table as each writer
\* sees it, has at most one row per (site_id, id).
C13_ConcurrentWritersUniqueKeys ==
    /\ UniqueKeys(db_items)
    /\ \A w \in Writers : UniqueKeys(View(w))

\* C13 case: both writers found the key absent, one committed its row, and
\* the INSERT of the other, with different content, was refused
C13_Witness ==
    \E w \in Writers : \E o \in Writers \ {w} :
        /\ conns[w].pc = "raised" /\ conns[w].tx /\ ~conns[w].existing
        /\ conns[o].pc = "done"
        /\ SameKey(conns[w].item, conns[o].item)
        /\ conns[w].item.text # conns[o].item.text
        /\ Cardinality({r \in db_items : SameKey(r, conns[w].item)}) = 1

\* The upsert_items step that has just processed a Record
Processed == spc = "upsert_items" /\ Len(u_done') = Len(u_done) + 1

\* The rows of tbl with the key of item
Keyed(tbl, item) ==
    {r \in tbl : r.site_id = item.site_id /\ r.id = item.id}

\* C14: upsert_items returns the number of rows it inserted: new_count starts
\* at 0, grows by one for a Record whose key has no row when it is processed
\* (with the row count), stays for a Record whose key has one, and is what
\* the call returns.
C14_ReturnsInsertCount ==
    [][/\ (spc = "idle" /\ spc' = "upsert_items") => new_count' = 0
       /\ Processed =>
             LET absent == Keyed(tbl_items, Last(u_done')) = {}
                 inserted == IF absent THEN 1 ELSE 0
             IN /\ new_count' = new_count + inserted
                /\ Cardinality(tbl_items') = Cardinality(tbl_items) + inserted
       /\ (spc = "upsert_items" /\ spc' = "idle" /\ ~call'.raised) =>
             call'.ret = new_count /\ call'.items = u_done]_vars

\* C14 case: a list that repeats a new key returned 1
C14_Witness ==
    /\ call.op = "upsert_items" /\ ~call.raised /\ ~call.again
    /\ Len(call.items) = 2
    /\ SameKey(call.items[1], call.items[2])
    /\ call.ret = 1

\* C15: a Record whose key has a row leaves that row with the Record's text,
\* url, author_id, author_name and extra, and every other row as it was.
C15_LaterObservationWins ==
    [][(Processed /\ Keyed(tbl_items, Last(u_done')) # {}) =>
          LET item == Last(u_done')
          IN /\ Keyed(tbl_items', item) # {}
             /\ \A r \in Keyed(tbl_items', item) :
                   /\ r.text = item.text
                   /\ r.url = item.url
                   /\ r.author_id = item.author_id
                   /\ r.author_name = item.author_name
                   /\ json_loads(r.extra) = item.extra
             /\ tbl_items' \ Keyed(tbl_items', item)
                   = tbl_items \ Keyed(tbl_items, item)]_vars

\* C15 case: a call updated p1 of one site to new content while the other
\* site's p1 keeps the old content
C15_Witness ==
    /\ call.op = "upsert_items" /\ ~call.raised
    /\ Len(call.items) = 1 /\ call.ret = 0
    /\ call.items[1].text = "new"
    /\ \E r \in tbl_items : SameKey(r, call.items[1]) /\ r.text = "new"
    /\ \E r \in tbl_items : /\ r.id = call.items[1].id
                            /\ r.site_id # call.items[1].site_id
                            /\ r.text = "old"

\* C16: no step changes the stored timestamp of a key that has a row, and a
\* Record whose key has a row leaves get_latest_timestamp of every site (and
\* author) as it was.
C16_TimestampPreserved ==
    [][/\ \A r \in tbl_items : \A q \in tbl_items' :
             (r.site_id = q.site_id /\ r.id = q.id) => q.timestamp = r.timestamp
       /\ (Processed /\ Keyed(tbl_items, Last(u_done')) # {}) =>
             \A site \in Sites :
                 get_latest_timestamp(tbl_items', site, NoAuthor)
                     = get_latest_timestamp(tbl_items, site, NoAuthor)]_vars

\* C16 case: a call updated a row with a Record newer than every stored one
C16_Witness ==
    /\ call.op = "upsert_items" /\ ~call.raised
    /\ Len(call.items) = 1 /\ call.ret = 0
    /\ \E r \in tbl_items : SameKey(r, call.items[1]) /\ r.text = call.items[1].text
    /\ get_latest_timestamp(tbl_items, call.items[1].site_id, NoAuthor)
          < call.items[1].timestamp

\* C17: the table never has two rows with one (site_id, id); a Record whose
\* id has a row under another site only is inserted as a row of its own and
\* counted.
C17_KeyScopedPerSite ==
    /\ [](\A r1, r2 \in tbl_items :
             (r1.site_id = r2.site_id /\ r1.id = r2.id) => r1 = r2)
    /\ [][(Processed /\ Keyed(tbl_items, Last(u_done')) = {}) =>
             /\ new_count' = new_count + 1
             /\ Cardinality(Keyed(tbl_items', Last(u_done'))) = 1
             /\ tbl_items \subseteq tbl_items']_vars

\* C17 case: one call inserted p1 of both sites
C17_Witness ==
    /\ call.op = "upsert_items" /\ ~call.raised
    /\ Len(call.items) = 2 /\ call.ret = 2
    /\ call.items[1].id = call.items[2].id
    /\ call.items[1].site_id # call.items[2].site_id
    /\ Cardinality({r \in tbl_items : r.id = call.items[1].id}) = 2

\* The rows matching a site and, when given, an author
Matching(site_id, author_name) ==
    {r \in tbl_items : /\ r.site_id = site_id
                       /\ author_name # NoAuthor => r.author_name = author_name}

\* C18: get_latest_timestamp(site_id, author_name) returns the greatest
\* timestamp of the stored Records of the site (of the author when given),
\* and None when there is none.
C18_LatestTimestamp ==
    query.op = "get_latest_timestamp" =>
        LET stamps == {fromisoformat(r.timestamp) :
                          r \in Matching(query.site_id, query.author_name)}
        IN IF stamps = {} THEN query.ret = NoTimestamp
           ELSE /\ query.ret \in stamps
                /\ \A t \in stamps : t <= query.ret

\* C18 case: the author's latest is older than the site's latest, and the
\* other site has no Record
C18_Witness ==
    /\ query.op = "get_latest_timestamp"
    /\ query.author_name # NoAuthor
    /\ query.ret # NoTimestamp
    /\ \E r \in tbl_items : /\ r.site_id = query.site_id
                            /\ fromisoformat(r.timestamp) > query.ret
    /\ \E site \in Sites : \A r \in tbl_items : r.site_id # site

\* The stored Records that pass the filters of the last get_items
Passing ==
    {_row_to_item(r) : r \in
        {x \in tbl_items :
            /\ query.site_id # None => x.site_id = query.site_id
            /\ query.author_name # NoAuthor => x.author_name = query.author_name
            /\ query.since # NoTimestamp
                  => fromisoformat(x.timestamp) > query.since}}

\* C19: get_items returns stored Records that pass every given filter, each
\* once, in descending timestamp order, and exactly those at the positions
\* offset+1 .. offset+limit of that order.
C19_QueryRecords ==
    query.op = "get_items" =>
        LET ret == query.ret
            n == Cardinality(Passing)
            rest == IF n > query.offset THEN n - query.offset ELSE 0
        IN /\ \A k \in 1..Len(ret) : ret[k] \in Passing
           /\ \A i, j \in 1..Len(ret) : i # j => ret[i] # ret[j]
           /\ \A i \in 1..(Len(ret) - 1) :
                 ret[i].timestamp >= ret[i + 1].timestamp
           /\ Len(ret) = IF rest < query.limit THEN rest ELSE query.limit
           /\ \A k \in 1..Len(ret) :
                 /\ Cardinality({x \in Passing :
                                    x.timestamp > ret[k].timestamp})
                       <= query.offset + k - 1
                 /\ Cardinality({x \in Passing :
                                    x.timestamp >= ret[k].timestamp})
                       >= query.offset + k

\* C19 case: three Records stored, a since that one of them equals, the
\* newer two pass and the second of them is returned by limit 1, offset 1
C19_Witness ==
    /\ query.op = "get_items"
    /\ Cardinality(tbl_items) = 3
    /\ query.since # NoTimestamp
    /\ \E r \in tbl_items : fromisoformat(r.timestamp) = query.since
    /\ query.limit = 1 /\ query.offset = 1
    /\ Len(query.ret) = 1

\* on_batch (the store's upsert_items) has raised
OnBatchRaised == call.op = "upsert_items" /\ call.raised

\* C20: when on_batch raises, scrape goes to its finally and raises: the
\* context is closed once, no scroll, parse, on_batch or on_progress follows,
\* nothing is returned, and the command ends as failed.
C20_OnBatchErrorPropagates ==
    /\ [](OnBatchRaised =>
             /\ pc \in {"on_batch_init", "on_batch_scroll", "close", "raised"}
             /\ pc \in {"close", "raised"} => exc = "error"
             /\ pc = "raised" => (opened = 1 /\ closed = 1))
    /\ [][OnBatchRaised =>
             IF pc' = "idle"
             THEN Last(runs').outcome = "failed"
             ELSE /\ delivered' = delivered
                  /\ progress' = progress
                  /\ scroll_count' = scroll_count
                  /\ all_items' = all_items
                  /\ result' = result /\ result = <<>>]_vars

\* C20 case: on_batch raised in a scroll iteration, after the first batch
\* was stored, and scrape has raised
C20_Witness ==
    /\ OnBatchRaised
    /\ pc = "raised"
    /\ Len(delivered) = 2
    /\ delivered[2].at = "on_batch_scroll"
    /\ closed = 1

\* C21: when the navigation fails or times out, scrape goes to its finally
\* and raises: nothing was parsed, no on_batch, on_progress or scroll took
\* place or takes place for the target, the context is closed once, and the
\* caller sees the exception (the command ends as failed).
C21_NavigationFailureIsFatal ==
    /\ [](exc = "navigation" =>
             /\ pc \in {"close", "raised"}
             /\ all_items = <<>> /\ result = <<>>
             /\ delivered = <<>> /\ progress = <<>>
             /\ scroll_count = 0 /\ stop = None
             /\ spc = "idle" /\ call.op # "upsert_items"
             /\ opened = 1
             /\ closed = IF pc = "raised" THEN 1 ELSE 0)
    /\ [][exc = "navigation" /\ pc = "raised" =>
             /\ pc' = "idle"
             /\ Last(runs').outcome = "failed"
             /\ crawl_log' = crawl_log]_vars

\* C21 case: the navigation failed after a response was captured; the
\* response was never parsed and the context is closed
C21_Witness ==
    /\ exc = "navigation"
    /\ pc = "raised"
    /\ collected_responses # <<>>
    /\ closed = 1

C23_InterruptedRunReturns ==
    (exc = "cancelled" /\ delivered # <<>>) => pc # "raised"

\* C23 amended: an interrupted scrape returns nothing: after the finally the
\* cancellation leaves it; the crawl command catches it and ends cleanly as
\* interrupted, with the committed table as it was and the store closed.
C23_InterruptedRunRaises ==
    /\ [](exc = "cancelled" =>
             /\ pc \in {"close", "raised"}
             /\ result = <<>>)
    /\ [][exc = "cancelled" =>
             IF pc = "close"
             THEN pc' = "raised" /\ exc' = exc /\ result' = <<>>
             ELSE /\ pc' = "idle"
                  /\ Last(runs').outcome = "interrupted"
                  /\ db_items' = db_items /\ tbl_items' = db_items
                  /\ call'.op = "close"]_vars

\* C23 case: interrupted in a scroll iteration with two batches stored;
\* scrape has closed the context and raised
C23_Witness ==
    /\ exc = "cancelled"
    /\ pc = "raised"
    /\ closed = 1
    /\ Len(delivered) = 2
    /\ Len(all_items) = 2
    /\ result = <<>>

\* C24: every traversal of a target that has ended, completed or aborted
\* (navigation error, on_batch failure, interruption), has appended one
\* entry to crawl_log.
C24_OneLogEntryPerTraversal == Len(crawl_log) = Len(runs)

\* C25: when a scroll iteration ends (on_progress was called) with since
\* set and an accumulation holding a Record with timestamp <= since (so the
\* minimum is <= since), the loop is left; from there on no scroll happens.
C25_CutoffStop ==
    /\ [][(/\ Len(progress') = Len(progress) + 1
           /\ since # NoTimestamp
           /\ all_items' # <<>>
           /\ \E k \in 1..Len(all_items') : all_items'[k].timestamp <= since)
          => (pc' = "close" /\ stop' \in {"cutoff", "stagnation"})]_vars
    /\ [][(pc \in {"close", "done", "raised"}) =>
              (/\ pc' \in {"done", "raised", "idle"}
               /\ (pc' # "idle" => scroll_count' = scroll_count))]_vars

\* C25 case: the second scroll iteration brought the first Record as old as
\* since, next to a newer one; the loop ended there by the cutoff stop
C25_Witness ==
    /\ pc = "done"
    /\ stop = "cutoff"
    /\ scroll_count = 2
    /\ MinTimestamp(all_items) = since
    /\ \E k \in 1..Len(all_items) : all_items[k].timestamp > since
    /\ MaxPages > 2

\* C26: when the initial parse ends with since set and no Record at all,
\* the early bailout is not taken: the scroll loop is entered and, the
\* iteration limit being at least 1, its first scroll is issued.
C26_EmptyFirstPageScrolls ==
    /\ [][(/\ pc = "settle" /\ pc' # "settle"
           /\ exc' = None
           /\ since # NoTimestamp
           /\ all_items' = <<>>)
          => (/\ pc' = "scroll_eval"
              /\ scroll_count' = 0 /\ no_new_count' = 0
              /\ stop' = None)]_vars
    /\ [](stop = "bailout" => all_items # <<>>)

\* C26 case: with since set, the first page brought a payload without
\* posts; the engine is in the first scroll
C26_Witness ==
    /\ since # NoTimestamp
    /\ collected_responses # <<>>
    /\ all_items = <<>>
    /\ pc = "scroll_eval"
    /\ scroll_count = 0
    /\ MaxPages >= 1

\* text contains query_text as a substring
Contains(text, query_text) ==
    \E at \in 0..(Len(text) - Len(query_text)) :
        SubSeq(text, at + 1, at + Len(query_text)) = query_text

\* The stored Records search is to return: by substring for a query shorter
\* than 3, by the trigram index otherwise; of the given site only
Found ==
    {_row_to_item(r) : r \in
        {x \in tbl_items :
            /\ IF Len(query.q) < 3
                  THEN Contains(x.text, query.q)
                  ELSE MATCH(items_fts(tbl_items)[x], query.q)
            /\ query.site_id # None => x.site_id = query.site_id}}

\* C27: search(q) returns, newest first and limit at most, the Records of
\* the given site whose text contains q (len(q) < 3) or that the trigram
\* index matches (len(q) >= 3).
C27_SearchByQueryLength ==
    query.op = "search" =>
        LET ret == query.ret
            n == Cardinality(Found)
        IN /\ \A k \in 1..Len(ret) : ret[k] \in Found
           /\ \A i, j \in 1..Len(ret) : i # j => ret[i] # ret[j]
           /\ \A i \in 1..(Len(ret) - 1) :
                 ret[i].timestamp >= ret[i + 1].timestamp
           /\ Len(ret) = IF n < query.limit THEN n ELSE query.limit
           /\ \A k \in 1..Len(ret) :
                 Cardinality({x \in Found : x.timestamp > ret[k].timestamp})
                    <= k - 1

\* The stored Pages that pass the filters of the last get_pages
PassingPages ==
    {_row_to_page(r) : r \in
        {x \in pages :
            /\ query.site_id # None => x.site_id = query.site_id
            /\ query.url # None => x.url = query.url}}

\* C28: get_pages takes a site_id and a url filter, each optional, and
\* returns the stored Pages that pass the given ones, each once, in
\* descending fetched_at order, at the positions offset+1 .. offset+limit.
C28_QueryPages ==
    query.op = "get_pages" =>
        LET ret == query.ret
            n == Cardinality(PassingPages)
            rest == IF n > query.offset THEN n - query.offset ELSE 0
        IN /\ ~query.raised
           /\ \A k \in 1..Len(ret) : ret[k] \in PassingPages
           /\ \A i, j \in 1..Len(ret) : i # j => ret[i] # ret[j]
           /\ \A i \in 1..(Len(ret) - 1) :
                 ret[i].fetched_at >= ret[i + 1].fetched_at
           /\ Len(ret) = IF rest < query.limit THEN rest ELSE query.limit

\* The rows of a url
PagesOf(tbl, url) == {r \in tbl : r.url = url}

\* C29: upsert_page(p) returns true exactly when no row had p.url before
\* the call; after it the table has one row of p.url, which reads back as
\* p in every field, and the rows of other urls are as before; get_page of
\* the url returns p.
C29_UpsertPageReplaces ==
    /\ [][(page_call' # page_call \/ pages' # pages) =>
             LET p == page_call'.page
             IN /\ page_call'.op = "upsert_page"
                /\ page_call'.ret = (PagesOf(pages, p.url) = {})
                /\ Cardinality(PagesOf(pages', p.url)) = 1
                /\ \A r \in PagesOf(pages', p.url) :
                      /\ r.site_id = p.site_id
                      /\ r.title = p.title
                      /\ r.markdown = p.markdown
                      /\ fromisoformat(r.fetched_at) = p.fetched_at
                /\ \A r \in pages \cup pages' :
                      r.url # p.url => (r \in pages /\ r \in pages')]_vars
    /\ []((query.op = "get_page" /\ query.url = page_call.page.url)
             => query.ret = <<page_call.page>>)

\* C29 case: a page was stored over an earlier page of its url, which
\* differed from it in site, content and fetch time, and read back
C29_Witness ==
    /\ page_call.op = "upsert_page"
    /\ ~page_call.ret
    /\ Cardinality(pages) = 2
    /\ query.op = "get_page"
    /\ query.url = page_call.page.url
    /\ query.ret = <<page_call.page>>

\* The sum of the counts of a by_site map
RECURSIVE SumOf(_)
SumOf(by_site) ==
    IF DOMAIN by_site = {} THEN 0
    ELSE LET s == CHOOSE x \in DOMAIN by_site : TRUE
         IN by_site[s] + SumOf([x \in DOMAIN by_site \ {s} |-> by_site[x]])

\* C30: get_stats() returns a total that is the number of stored Records
\* and the sum of the by_site counts, by_site listing exactly the sites that
\* have a Record, each with its count; get_stats(site) returns the count of
\* that site's Records as total, and by_site and latest_by_site hold that
\* site and no other.
C30_StatsTotals ==
    query.op = "get_stats" =>
        LET ret == query.ret
        IN IF query.site_id = None
           THEN /\ ret.total = Cardinality(tbl_items)
                /\ ret.total = SumOf(ret.by_site)
                /\ DOMAIN ret.by_site =
                      {s \in Sites : \E r \in tbl_items : r.site_id = s}
                /\ \A s \in DOMAIN ret.by_site :
                      ret.by_site[s] =
                         Cardinality({r \in tbl_items : r.site_id = s})
                /\ DOMAIN ret.latest_by_site = DOMAIN ret.by_site
           ELSE /\ ret.total =
                      Cardinality({r \in tbl_items :
                                      r.site_id = query.site_id})
                /\ DOMAIN ret.by_site = {query.site_id}
                /\ DOMAIN ret.latest_by_site = {query.site_id}
                /\ ret.by_site[query.site_id] = ret.total

\* C30 case: the store holds Records of both sites, two of one of them, and
\* the stats of the other site were asked for
C30_Witness ==
    /\ query.op = "get_stats"
    /\ query.site_id # None
    /\ Cardinality(tbl_items) = 3
    /\ query.ret.total = 1

\* The keys of the rows of a table of Records, the urls of a table of pages
KeysOf(tbl) == {<<r.site_id, r.id>> : r \in tbl}
UrlsOf(tbl) == {r.url : r \in tbl}

\* C31: no store operation removes a Record or a Page.  In every step the
\* keys of the committed Records and the urls of the stored pages only grow,
\* and so do the keys the open connection sees in every step of
\* upsert_items, upsert_page, log_crawl and the queries (every step but a
\* close, which ends the connection).
C31_NeverDeleted ==
    [][(/\ KeysOf(db_items) \subseteq KeysOf(db_items')
        /\ UrlsOf(pages) \subseteq UrlsOf(pages')
        /\ (call'.op # "close" \/ call' = call)
               => KeysOf(tbl_items) \subseteq KeysOf(tbl_items'))]_vars

\* Records and pages are stored, a page has been captured again and a
\* Record updated, the crawl is logged

C31_Witness ==
    /\ Cardinality(KeysOf(db_items)) = 2
    /\ UrlsOf(pages) = PageUrls
    /\ page_call.op = "upsert_page" /\ ~page_call.ret
    /\ crawl_log # <<>>
    /\ query.op = "get_latest_timestamp"

\* The accumulated Record count after scroll iteration k, as on_progress was
\* told; after the initial parse for k = 0
CountAfter(k) == IF k = 0 THEN Len(InitialParse) ELSE progress[k][2]

\* Iteration k added nothing
NoGrowthAt(k) == CountAfter(k) = CountAfter(k - 1)

\* The no-growth iterations in a row that end with iteration n
RECURSIVE NoGrowthRun(_)
NoGrowthRun(n) ==
    IF n = 0 \/ ~NoGrowthAt(n) THEN 0 ELSE 1 + NoGrowthRun(n - 1)

\* C32: the stagnation counter is the number of no-growth scroll iterations
\* in a row up to the last completed one (growth resets it to 0), and the
\* stagnation stop is taken exactly when that run reaches 3: no run gets
\* longer, and a scrape stopped for stagnation has just had 3 in a row.
C32_ConsecutiveStagnation ==
    /\ no_new_count = NoGrowthRun(Len(progress))
    /\ NoGrowthRun(Len(progress)) <= 3
    /\ stop = "stagnation" <=> NoGrowthRun(Len(progress)) = 3

\* An iteration with growth, then three without: stopped for stagnation
C32_Witness ==
    /\ stop = "stagnation"
    /\ Len(progress) = 4
    /\ ~NoGrowthAt(1)

\* Where an id occurs first in the accumulation
FirstOccurrence(id) ==
    CHOOSE k \in 1..Len(all_items) :
        /\ all_items[k].id = id
        /\ \A m \in 1..(k - 1) : all_items[m].id # id

\* C33: two Records of the returned list with equal timestamps stand in the
\* order in which their ids first occur in the accumulation.
C33_StableSort ==
    pc = "done" =>
        \A i, j \in 1..Len(result) :
            (i < j /\ result[i].timestamp = result[j].timestamp) =>
                FirstOccurrence(result[i].id) < FirstOccurrence(result[j].id)

\* Two Records with one timestamp are returned, of three accumulated
C33_Witness ==
    /\ pc = "done"
    /\ Len(result) = 2
    /\ result[1].timestamp = result[2].timestamp
    /\ result[1].id # result[2].id
    /\ Len(all_items) = 3

\* scrape is in a scroll iteration, past the scroll
InIteration == pc \in {"post_scroll", "poll_scroll", "on_batch_scroll"}

\* C34: on_progress is called once per scroll iteration.  The calls carry
\* the indices 1, 2, ... and totals that never decrease; while an iteration
\* is under way (its on_batch included) its call is still to come, and at
\* the head of the next iteration as well as when the loop has ended by a
\* stop condition or the limit every iteration has had its call.  A call is
\* made in an iteration, passes the total accumulated so far, every Record
\* of which has been passed to on_batch by then.
C34_ProgressPerIteration ==
    /\ [](/\ \A k \in 1..Len(progress) : progress[k][1] = k
          /\ \A k \in 1..(Len(progress) - 1) :
                progress[k][2] <= progress[k + 1][2]
          /\ InIteration => Len(progress) = scroll_count - 1
          /\ (pc \in {"scroll_eval", "scroll_delay"})
                => Len(progress) = scroll_count
          /\ (pc \in {"close", "done"} /\ exc = None)
                => Len(progress) = scroll_count)
    /\ [][(progress' # progress /\ progress' # <<>>) =>
             (/\ InIteration
              /\ progress' = Append(progress,
                                    <<scroll_count, Len(all_items')>>)
              /\ delivered' = delivered
              /\ Flatten(delivered) = all_items')]_vars

\* The loop was stopped by the cutoff in its second iteration, which
\* delivered a batch
C34_Witness ==
    /\ stop = "cutoff"
    /\ Len(progress) = 2
    /\ progress[1][2] < progress[2][2]
    /\ Last(delivered).at = "on_batch_scroll"

\* C35: the capture hook appends only while scrape is suspended, and every
\* payload buffered before a parse step is parsed exactly once, in buffer
\* order: before the initial parse nothing is accumulated; from the head of
\* a scroll iteration to its parse step the accumulation is the parse of
\* the payloads up to the pre-scroll count, once each; and right after a
\* parse step (during on_batch, and when the loop has ended) it is the
\* parse of the whole buffer, once each, so that the next snapshot leaves
\* nothing unparsed behind it.
C35_EveryPayloadParsedOnce ==
    /\ [](/\ pc \in {"goto", "poll_init", "settle"} => all_items = <<>>
          /\ pc \in {"scroll_eval", "scroll_delay", "post_scroll",
                      "poll_scroll"} =>
                /\ prev_resp_count <= Len(collected_responses)
                /\ all_items = ParseAll(SubSeq(collected_responses, 1,
                                               prev_resp_count))
          /\ (\/ pc \in {"on_batch_init", "on_batch_scroll", "done"}
              \/ (pc = "close" /\ exc = None)) =>
                all_items = ParseAll(collected_responses))
    /\ [][(collected_responses' # collected_responses
              /\ collected_responses' # <<>>) =>
                (pc \in InTry /\ pc' = pc /\ all_items' = all_items)]_vars

\* Two payloads came in during one scroll iteration, after one on the first
\* page; each holds a Record
C35_Witness ==
    /\ pc = "done"
    /\ Len(collected_responses) = 3
    /\ Len(all_items) = 3
    /\ Len(delivered) = 2
    /\ Len(delivered[2].batch) = 2

\* The id occurs in the accumulation
Accumulated(id) == \E k \in 1..Len(all_items) : all_items[k].id = id

\* Where the id stands in the returned list
PlacesOf(id) == {i \in 1..Len(result) : result[i].id = id}

\* C36: the returned list holds, for each id whose first occurrence in the
\* accumulation has timestamp > since (for each accumulated id when since
\* is absent), exactly one Record, and it is that first occurrence; it
\* holds no Record of any other id, also when a later occurrence of the id
\* has timestamp > since.
C36_FirstOccurrenceDecides ==
    pc = "done" =>
        \A id \in Ids :
            IF /\ Accumulated(id)
               /\ \/ since = NoTimestamp
                  \/ all_items[FirstOccurrence(id)].timestamp > since
            THEN /\ Cardinality(PlacesOf(id)) = 1
                 /\ \A i \in PlacesOf(id) :
                       result[i] = all_items[FirstOccurrence(id)]
            ELSE PlacesOf(id) = {}

\* An id came first with timestamp = since and again with a newer one, and
\* is not returned, while another id is
C36_Witness ==
    /\ pc = "done"
    /\ since # NoTimestamp
    /\ result # <<>>
    /\ \E id \in Ids :
          /\ Accumulated(id)
          /\ all_items[FirstOccurrence(id)].timestamp <= since
          /\ \E k \in 1..Len(all_items) :
                all_items[k].id = id /\ all_items[k].timestamp > since
          /\ PlacesOf(id) = {}

\* The ids among the first n Records of the accumulation
IdsUpTo(n) == {all_items[k].id : k \in 1..n}

\* Scroll iteration k parsed Records, every one of an id accumulated before
ReServedAt(k) ==
    /\ CountAfter(k) > CountAfter(k - 1)
    /\ IdsUpTo(CountAfter(k)) = IdsUpTo(CountAfter(k - 1))

\* C37: growth is measured on the raw count.  When the last completed scroll
\* iteration parsed only Records of ids already accumulated, the stagnation
\* counter is 0 and the loop has not stopped for stagnation; a loop whose
\* every iteration was of that kind ends by the cutoff stop or the
\* iteration limit.
C37_DuplicatesCountAsGrowth ==
    /\ (progress # <<>> /\ ReServedAt(Len(progress))) =>
            (no_new_count = 0 /\ stop # "stagnation")
    /\ (/\ pc = "done" /\ progress # <<>>
        /\ \A k \in 1..Len(progress) : ReServedAt(k)) =>
            stop \in {"cutoff", "limit"}

\* Two iterations re-served the id of the first page, the second with an
\* older timestamp: the cutoff stop ended the loop
C37_Witness ==
    /\ pc = "done"
    /\ Len(progress) = 2
    /\ \A k \in 1..Len(progress) : ReServedAt(k)
    /\ stop = "cutoff"

\* The rows the indexed search joins for a query: those with an entry of
\* their rowid in the index whose trigrams match
IndexedMatch(tbl, fts, query_text) ==
    {r \in tbl : \E e \in fts :
        e.rowid = rowid(r) /\ MATCH(trigram(e.text), query_text)}

\* The index holds entries of rows of the table only, and for each row the
\* trigrams of its current text and no others
IndexAgrees(fts, tbl) ==
    /\ \A e \in fts : \E r \in tbl : rowid(r) = e.rowid
    /\ \A r \in tbl :
          {trigram(e.text) : e \in {x \in fts : x.rowid = rowid(r)}}
              = {items_fts(tbl)[r]}

\* C38: after any sequence of upsert_items calls the full-text index agrees
\* with the table, committed and as the connection sees it; every Record
\* with a text of 3 characters or more is found by the indexed search for
\* its text; and a Record whose text a step has changed is found through
\* the new text and no longer through the old one (unless the new text
\* contains it).
C38_IndexFollowsTable ==
    /\ [](/\ IndexAgrees(tbl_fts, tbl_items)
          /\ IndexAgrees(db_fts, db_items)
          /\ \A r \in tbl_items :
                Len(r.text) >= 3 =>
                    r \in IndexedMatch(tbl_items, tbl_fts, r.text))
    /\ [][\A old \in tbl_items : \A new \in tbl_items' :
             (rowid(old) = rowid(new) /\ old.text # new.text) =>
                 (/\ Len(new.text) >= 3 =>
                        new \in IndexedMatch(tbl_items', tbl_fts', new.text)
                  /\ (Len(old.text) >= 3 /\ ~Contains(new.text, old.text)) =>
                        new \notin IndexedMatch(tbl_items', tbl_fts',
                                                old.text))]_vars

\* One call inserted a Record and overwrote its text with another one, both
\* of 3 characters, and committed
C38_Witness ==
    /\ call.op = "upsert_items" /\ ~call.raised
    /\ Len(call.items) = 2
    /\ call.items[1].id = call.items[2].id
    /\ call.items[1].text # call.items[2].text
    /\ Len(call.items[1].text) = 3 /\ Len(call.items[2].text) = 3
    /\ call.ret = 1
    /\ db_items = tbl_items

\* The posts of an edge that are emitted: those with a taken_at, when the
\* edge's first thread item has a post
EmittedPosts(thread_items) ==
    IF thread_items = <<>> THEN <<>>
    ELSE IF thread_items[1].post = NoPost THEN <<>>
    ELSE SelectSeq(thread_items,
                   LAMBDA t : t.post # NoPost /\ t.post.taken_at # NoTimestamp)

\* The Records emitted for the edges before edge e
RECURSIVE EmittedBefore(_, _)
EmittedBefore(edges, e) ==
    IF e = 1 THEN 0
    ELSE EmittedBefore(edges, e - 1) + Len(EmittedPosts(edges[e - 1]))

\* C39: _parse_replies emits, edge after edge, one Record per post that
\* has a timestamp (none for an edge without a first post).  Every Record
\* of an edge carries the id of the edge's first post as conversation_id;
\* the first one emitted for the edge has is_reply false and no
\* parent_post_id; each later one has is_reply true and the id of the
\* Record emitted just before it in that edge as parent_post_id.
C39_RepliesChain ==
    query.op = "_parse_replies" =>
        LET edges == hook.body
            ret == query.ret
        IN /\ Len(ret) = EmittedBefore(edges, Len(edges) + 1)
           /\ \A e \in 1..Len(edges) :
              \A k \in 1..Len(EmittedPosts(edges[e])) :
                 LET item == ret[EmittedBefore(edges, e) + k]
                 IN /\ item.id = str(EmittedPosts(edges[e])[k].post.pk)
                    /\ item.extra.conversation_id = str(edges[e][1].post.pk)
                    /\ item.extra.is_reply = (k > 1)
                    /\ item.extra.parent_post_id =
                          IF k = 1 THEN NoId
                          ELSE ret[EmittedBefore(edges, e) + k - 1].id

\* Two edges; in the first a post without taken_at stands between the root
\* and a reply, which has the root as parent; the second starts anew
C39_Witness ==
    /\ query.op = "_parse_replies"
    /\ Len(hook.body) = 2
    /\ Len(hook.body[1]) = 3
    /\ hook.body[1][2].post # NoPost
    /\ hook.body[1][2].post.taken_at = NoTimestamp
    /\ hook.body[1][2].post.pk # hook.body[1][1].post.pk
    /\ Len(query.ret) = 3
    /\ query.ret[2].extra.parent_post_id = query.ret[1].id
    /\ ~query.ret[3].extra.is_reply
====
